---- MODULE Spec2Model ----
(***************************************************************************)
(* Connection pool and session driver of clickhouse-readonly.              *)
(*                                                                         *)
(* The pool (src/pool/mod.rs) hands out ClientHandles to tasks; a task     *)
(* runs check_connection / retry / reconnect (src/client.rs) before each   *)
(* query and the block stream of the query (src/query.rs) moves the        *)
(* transport out of and back into the handle.                              *)
(*                                                                         *)
(* Granularity: Pool::poll, Pool::return_conn and the Drop implementations *)
(* contain no suspension point, so each is one step (section 5 of the      *)
(* specification: single-threaded cooperative tasks).  Steps of different  *)
(* tasks interleave freely.                                                *)
(***************************************************************************)
EXTENDS Integers, Sequences, FiniteSets, TLC

(* ------------------------------ bounds --------------------------------- *)
\* number of tasks that use the pool
NumTasks == 2
\* number of tasks that may be inside a query (check_connection, stream)
\* at the same time
MaxQuerying == 1
\* the count of reconnect attempts of one check_connection saturates here
MaxSeen == 4
\* number of packets one packet stream yields at most
MaxPackets == 4
\* the longest run of continuation bytes given to read_uvarint
MaxContinuation == 12
MaxLenBits == 16
LongString == 130
MaxChunks == 5
MaxChunkLen == 2
MaxColumns == 3
MaxRows == 3
MaxCodecRows == 2
\* hosts of a pool, and calls of get_addr, at most
MaxHosts == 3
MaxCalls == 6

(* ------------------------- program constants --------------------------- *)
\* Pool::new: let min = 5
MIN == 5
\* Pool::new: let max = 10
MAX == 10
\* const MAX_RETRY_ATTEMTS: usize = 3
MAX_RETRY_ATTEMTS == 3

Tasks == 1..NumTasks
\* "no waker registered"
NoTask == 0

VARIABLES
    idle,        \* Inner.idle: queue of handles
    new,         \* Inner.new: the one-slot queue of the connection future
    newWaker,    \* the task whose waker the connection future holds
    tasks,       \* Inner.tasks: the wakers of pending get_handle polls
    ongoing,     \* Inner.ongoing
    held,        \* handles checked out and set aside by their tasks
    pc,          \* position of each task
    woken,       \* what woke the task's waker since it returned Pending:
                 \* "no", "conn" (the connection future) or "drop" (a release)
    cur,         \* the handle the task works with
    attempt,     \* retry: let mut attempt
    skip_check,  \* retry: let mut skip_check
    reconnects,  \* reconnect attempts started in the running check_connection
    via,         \* what preceded the reconnect attempt: "ping" or "sleep"
    ended        \* how the block stream of the task ended in its last step
                 \* ("none": the last step ended no stream), "idle"
                 \* when the task then dropped the handle of a stream that
                 \* ran to Eof and the pool kept it, and "unreachable" or
                 \* "unwrap" when the last step of the task panicked

\* one session: a ClientHandle and the packet stream of its running command
VARIABLES
    spc,         \* position of the session
    conn,        \* the ClientHandle: pool binding, inner (the transport is
                 \* there), inconsistent (flag of that transport),
                 \* server_info (context.server_info, as its revision)
    stream,      \* PacketStream: transport (it holds the transport),
                 \* n (packets yielded so far)
    hback,       \* hello, ping: let mut h (TRUE is Some)
    info,        \* hello: let mut info (0 is None)
    packet,      \* the packet last taken from the packet stream
    eof,         \* BlockStream.eof
    block_index, \* BlockStream.block_index
    sent,        \* the Block packets the stream has yielded, in order
    items,       \* the items BlockStream::poll_next has returned, in order
                 \* (or the stream wrap_stream builds after a failed check)
    last,        \* what the last poll_next returned
    result       \* what hello, ping or a failed check_connection returned

\* one call of a codec or value function on an input
VARIABLES
    fun,         \* the function applied next ("none": no call, "done")
    input,       \* the input the functions are applied to
    wire,        \* the bytes written so far, or the bytes of the reader
    output       \* the value returned

poolvars == <<idle, new, newWaker, tasks, ongoing, held, pc, woken, cur,
              attempt, skip_check, reconnects, via, ended>>

svars == <<spc, conn, stream, hback, info, packet, eof, block_index, sent, items, last,
           result>>

purevars == <<fun, input, wire, output>>

vars == <<idle, new, newWaker, tasks, ongoing, held, pc, woken, cur,
          attempt, skip_check, reconnects, via, ended,
          spc, conn, stream, hback, info, packet, eof, block_index, sent, items, last,
          result, fun, input, wire, output>>

(* ------------------------------ handles -------------------------------- *)
\* ClientHandle { inner: Option<ClickhouseTransport>, pool: PoolBinding };
\* inside is the flag of the transport that ClientHandle::set_inside sets
\* (FALSE when there is no transport)
Handle(binding, inner, inside) ==
    [pool |-> binding, inner |-> inner, inside |-> inner /\ inside]
\* no handle: nothing to drop
NoHandle == Handle("None", FALSE, FALSE)
\* Client::open(config, Some(pool)): pool: PoolBinding::Detached(p)
FreshHandle == Handle("Detached", TRUE, TRUE)
\* a handle as Pool::take_conn returns it
PlainHandle == Handle("Attached", TRUE, FALSE)

\* PoolBinding::is_attached
is_attached(h) == h.pool = "Attached"
\* PoolBinding::is_some
is_some(h) == h.pool # "None"

(* ------------------------------- pool ---------------------------------- *)
PoolNow == [idle |-> idle, new |-> new, newWaker |-> newWaker,
            tasks |-> tasks, ongoing |-> ongoing]

NewLen(p) == IF p.new = "empty" THEN 0 ELSE 1

\* Inner::conn_count
conn_count(p) == NewLen(p) + Len(p.idle) + p.ongoing

\* Pool::handle_futures, polled with the waker of task t
handle_futures(p, t) ==
    CASE p.new = "empty"   -> [p |-> p, err |-> FALSE]
      [] p.new = "ok"      -> [p |-> [p EXCEPT !.idle = Append(@, FreshHandle),
                                               !.new = "empty",
                                               !.newWaker = NoTask],
                               err |-> FALSE]
      [] p.new = "pending" -> [p |-> [p EXCEPT !.newWaker = t], err |-> FALSE]
      [] p.new = "err"     -> [p |-> [p EXCEPT !.new = "empty",
                                               !.newWaker = NoTask],
                               err |-> TRUE]

\* mutant: the client taken is not counted as ongoing
take_conn_uncounted(p) ==
    IF p.idle # <<>>
    THEN [some |-> TRUE,
          client |-> [Head(p.idle) EXCEPT !.pool = "Attached", !.inside = FALSE],
          p |-> [p EXCEPT !.idle = Tail(@)]]
    ELSE [some |-> FALSE, client |-> NoHandle, p |-> p]

\* Pool::take_conn
take_conn(p) ==
    IF p.idle # <<>>
    THEN [some |-> TRUE,
          client |-> [Head(p.idle) EXCEPT !.pool = "Attached", !.inside = FALSE],
          p |-> [p EXCEPT !.idle = Tail(@), !.ongoing = @ + 1]]
    ELSE [some |-> FALSE, client |-> NoHandle, p |-> p]

\* mutant: the comparison with max is off by one
may_open_at_max(p) == conn_count(p) <= MAX /\ p.new = "empty"

\* the guard of Pool::poll for a new connection future:
\* conn_count < self.max && self.inner.new.push(..).is_ok()
may_open(p) == conn_count(p) < MAX /\ p.new = "empty"

\* Pool::poll with the waker of task t; first is what the first poll of a
\* connection future created here returns ("pending" or "err")
RECURSIVE poll(_, _, _)
poll(p, t, first) ==
    LET hf == handle_futures(p, t) IN
    IF hf.err
    THEN [res |-> "err", client |-> NoHandle, opened |-> FALSE, p |-> hf.p]
    ELSE LET tc == take_conn(hf.p) IN
         IF tc.some
         THEN [res |-> "ready", client |-> tc.client, opened |-> FALSE, p |-> tc.p]
         ELSE IF may_open(hf.p)
              THEN [poll([hf.p EXCEPT !.new = first], t, first)
                       EXCEPT !.opened = TRUE]
              ELSE [res |-> "pending", client |-> NoHandle, opened |-> FALSE,
                    p |-> [hf.p EXCEPT !.tasks = @ \cup {t}]]

\* mutant: the comparison with min is off by one
keeps_at_min(p, client) == Len(p.idle) <= MIN /\ is_attached(client)

\* the test of Pool::return_conn: self.inner.idle.len() < min && is_attached
keeps(p, client) == Len(p.idle) < MIN /\ is_attached(client)

\* mutant: a detached client is kept too
return_conn_any(p, client) ==
    [p |-> [p EXCEPT !.idle = IF Len(p.idle) < MIN
                                THEN Append(@, Handle("None", TRUE, TRUE))
                                ELSE @,
                     !.ongoing = @ - 1,
                     !.tasks = {}],
     wake |-> p.tasks]

\* mutant: the wakers are neither drained nor woken
return_conn_silent(p, client) ==
    [p |-> [p EXCEPT !.idle = IF keeps(p, client)
                                THEN Append(@, Handle("None", TRUE, TRUE))
                                ELSE @,
                     !.ongoing = @ - 1],
     wake |-> {}]

\* Pool::return_conn; wake is the set of wakers drained and woken.  A client
\* that is not kept is dropped with inside = true: its transport releases
\* nothing
return_conn(p, client) ==
    [p |-> [p EXCEPT !.idle = IF keeps(p, client)
                                THEN Append(@, Handle("None", TRUE, TRUE))
                                ELSE @,
                     !.ongoing = @ - 1,
                     !.tasks = {}],
     wake |-> p.tasks]

\* Inner::release_conn
release_conn(p) ==
    [p |-> [p EXCEPT !.ongoing = @ - 1, !.tasks = {}], wake |-> p.tasks]

\* nothing happens to the pool
no_release(p) == [p |-> p, wake |-> {}]

\* Drop of a transport: outside the pool it gives its slot back
transport_drop(p, inside) == IF inside THEN no_release(p) ELSE release_conn(p)

\* mutant: a handle without transport is returned to the pool as well
drop_handle_always(p, h) ==
    IF is_some(h) THEN return_conn(p, h)
    ELSE IF h.inner THEN transport_drop(p, h.inside) ELSE no_release(p)

\* impl Drop for ClientHandle, and the drop of its fields
drop_handle(p, h) ==
    IF h.inner
    THEN IF is_some(h) THEN return_conn(p, h) ELSE transport_drop(p, h.inside)
    ELSE no_release(p)

(* ------------------------------- tasks --------------------------------- *)
WaitingPcs == {"waiting", "reconnect_wait"}
CheckPcs == {"ping", "reconnect", "reconnect_wait", "sleep"}
QueryPcs == CheckPcs \cup {"checked", "stream"}

Inc(n) == IF n < MaxSeen THEN n + 1 ELSE n

\* the pool after a step of task t (NoTask: of the environment), and the
\* wakers the step woke, by == "conn" or "drop"; e is what the step did to
\* the block stream or the handle of t
SetPoolEnded(p, wake, t, by, e) ==
    /\ idle' = p.idle
    /\ new' = p.new
    /\ newWaker' = p.newWaker
    /\ tasks' = p.tasks
    /\ ongoing' = p.ongoing
    /\ UNCHANGED <<svars, purevars>>
    /\ woken' = [w \in Tasks |->
                   IF w # t /\ pc'[w] \in WaitingPcs
                   THEN IF w \in wake /\ woken[w] # "drop" THEN by ELSE woken[w]
                   ELSE "no"]
    /\ ended' = [w \in Tasks |-> IF w = t THEN e ELSE ended[w]]

\* the same for a step that neither ends a block stream nor recycles a handle
SetPool(p, wake, t, by) == SetPoolEnded(p, wake, t, by, "none")

\* the locals of retry of task t
SetRetry(t, a, s, r, v) ==
    /\ attempt' = [attempt EXCEPT ![t] = a]
    /\ skip_check' = [skip_check EXCEPT ![t] = s]
    /\ reconnects' = [reconnects EXCEPT ![t] = r]
    /\ via' = [via EXCEPT ![t] = v]

\* retry is entered, or left
NoRetry(t) == SetRetry(t, 0, FALSE, 0, "ping")
SameRetry == UNCHANGED <<attempt, skip_check, reconnects, via>>

(* ------------------------ session: packets ---------------------------- *)
\* const CLICK_HOUSE_REVISION: u64 = 54213
CLICK_HOUSE_REVISION == 54213

\* ServerInfo of a Hello packet, as its revision
Revisions == {CLICK_HOUSE_REVISION, 54400}
\* ServerError of an Exception packet, as its code
Codes == {60, 241}
\* Block, as its numbers of rows and of columns
Blocks == {[rows |-> 0, columns |-> 0], [rows |-> 0, columns |-> 1],
           [rows |-> 1, columns |-> 1], [rows |-> 2, columns |-> 1]}
NoBlock == [rows |-> 0, columns |-> 0]

\* Block::is_empty
is_empty(block) == block.columns = 0

\* enum Packet<S>, and the Err item of a packet stream ("IoErr"); "None" is
\* the end of the packet stream
Pkt(kind, a, block) == [kind |-> kind, a |-> a, block |-> block]
Packets ==
    {Pkt("Hello", r, NoBlock) : r \in Revisions}
    \cup {Pkt(k, 0, NoBlock) :
            k \in {"Pong", "Progress", "ProfileInfo", "Eof", "IoErr"}}
    \cup {Pkt("Exception", c, NoBlock) : c \in Codes}
    \cup {Pkt("Block", 0, b) : b \in Blocks}
EndOfPackets == Pkt("None", 0, NoBlock)

\* Packet::bind: these packets take the transport out of the packet stream
binds(pkt) == pkt.kind \in {"Hello", "Pong", "Eof"}

\* PacketStream: no stream, and the stream that call(cmd) returns
NoStream == [transport |-> FALSE, n |-> 0]
call == [transport |-> TRUE, n |-> 0]

\* PacketStream::poll_next: what a poll of the packet stream can yield.  A
\* stream without its transport has ended; the socket can be closed at any
\* time
Arrivals ==
    IF stream.transport /\ stream.n < MaxPackets
    THEN Packets \cup {EndOfPackets}
    ELSE {EndOfPackets}

\* let packet: the packet taken from the stream
taken(pkt) == IF pkt.kind = "None" THEN packet ELSE pkt

\* the packet stream after it yielded pkt
yielded(pkt) ==
    IF pkt.kind = "None" THEN stream
    ELSE [transport |-> stream.transport /\ ~binds(pkt), n |-> stream.n + 1]

\* PacketStream::take_transport
take_transport == stream.transport

\* ClickhouseTransport::clear fails on an inconsistent transport
clear_fails(c) == c.inconsistent

\* Result<()> of hello and ping; Error::Server carries the exception
Res(kind, code) == [kind |-> kind, code |-> code]
NoResult == Res("none", 0)

\* an item of the block stream: Ok(block), the index-th Block packet of the
\* query, or Err(err)
OkItem(index, block) ==
    [ok |-> TRUE, index |-> index, block |-> block, err |-> NoResult]
ErrItem(kind, code) ==
    [ok |-> FALSE, index |-> 0, block |-> NoBlock, err |-> Res(kind, code)]

\* an item of the row stream: Ok(Row { row, block_ref }) of the index-th
\* block, or Err(err)
OkRow(index, row) == [ok |-> TRUE, index |-> index, row |-> row, err |-> NoResult]
ErrRow(err) == [ok |-> FALSE, index |-> 0, row |-> 0, err |-> err]

\* mutant: the iterator stops one row late
RECURSIVE Rows_inclusive(_, _)
Rows_inclusive(row, row_count) ==
    IF row > row_count THEN <<>>
    ELSE <<row>> \o Rows_inclusive(row + 1, row_count)

\* impl Iterator for Rows: the rows that next() yields from self.row on
RECURSIVE Rows(_, _)
Rows(row, row_count) ==
    IF row >= row_count THEN <<>>
    ELSE <<row>> \o Rows(row + 1, row_count)

\* QueryResult::stream, the closure of map: the row stream of one block item
rows_of(item) ==
    IF item.ok
    THEN LET rows == Rows(0, item.block.rows) IN
         [r \in 1..Len(rows) |-> OkRow(item.index, rows[r])]
    ELSE <<ErrRow(item.err)>>

\* QueryResult::stream, flatten: the row streams one after the other
RECURSIVE stream_rows(_)
stream_rows(its) ==
    IF its = <<>> THEN <<>> ELSE rows_of(Head(its)) \o stream_rows(Tail(its))

\* mutant: the first block is not skipped
keep_first_block == FALSE

\* QueryResult::stream_blocks: self._stream_blocks(true)
skip_first_block == TRUE

SessionInit ==
    /\ spc = "open"
    /\ conn = [pool |-> "Detached", inner |-> TRUE, inconsistent |-> FALSE,
               server_info |-> 0]
    /\ stream = NoStream
    /\ hback = FALSE
    /\ info = 0
    /\ packet = EndOfPackets
    /\ eof = FALSE
    /\ block_index = 0
    /\ sent = <<>>
    /\ items = <<>>
    /\ last = "none"
    /\ result = NoResult

\* no function is called
NoInput == [test |-> "none"]
NoOutput == [kind |-> "none"]
NoCall ==
    /\ fun = "none"
    /\ input = NoInput
    /\ wire = <<>>
    /\ output = NoOutput

\* Pool::new
PoolInit ==
    /\ idle = <<>>
    /\ new = "empty"
    /\ newWaker = NoTask
    /\ tasks = {}
    /\ ongoing = 0
    /\ held = 0
    /\ pc = [t \in Tasks |-> "none"]
    /\ woken = [t \in Tasks |-> "no"]
    /\ cur = [t \in Tasks |-> NoHandle]
    /\ attempt = [t \in Tasks |-> 0]
    /\ skip_check = [t \in Tasks |-> FALSE]
    /\ reconnects = [t \in Tasks |-> 0]
    /\ ended = [t \in Tasks |-> "none"]
    /\ via = [t \in Tasks |-> "ping"]

Init ==
    /\ PoolInit
    /\ SessionInit
    /\ NoCall

\* the task is polled: for the first time, or because its waker was woken
Polled(t, first, waiting) ==
    pc[t] = first \/ (pc[t] = waiting /\ woken[t] # "no")

\* GetHandle::poll: pool.get_handle().await of task t
GetHandlePoll(t) ==
    /\ Polled(t, "none", "waiting")
    /\ \E first \in {"pending", "err"} :
         LET r == poll(PoolNow, t, first) IN
         /\ pc' = [pc EXCEPT ![t] = CASE r.res = "ready"   -> "have"
                                      [] r.res = "err"     -> "none"
                                      [] r.res = "pending" -> "waiting"]
         /\ cur' = [cur EXCEPT ![t] = r.client]
         /\ SetPool(r.p, {}, t, "drop")
    /\ UNCHANGED held
    /\ SameRetry

\* the GetHandle future is dropped while pending; its waker stays queued
CancelGet(t) ==
    /\ pc[t] = "waiting"
    /\ pc' = [pc EXCEPT ![t] = "none"]
    /\ SetPool(PoolNow, {}, t, "drop")
    /\ UNCHANGED <<held, cur>>
    /\ SameRetry

\* the connection future (Client::open) completes and wakes its waker
ConnComplete ==
    /\ new = "pending"
    /\ \E out \in {"ok", "err"} :
         /\ UNCHANGED pc
         /\ SetPool([PoolNow EXCEPT !.new = out, !.newWaker = NoTask],
                    {newWaker}, NoTask, "conn")
    /\ UNCHANGED <<held, cur>>
    /\ SameRetry

\* the task keeps its handle and goes on (a task may own several handles)
Stash(t) ==
    /\ pc[t] = "have"
    /\ cur[t] = PlainHandle
    /\ held' = held + 1
    /\ pc' = [pc EXCEPT ![t] = "none"]
    /\ cur' = [cur EXCEPT ![t] = NoHandle]
    /\ SetPool(PoolNow, {}, t, "drop")
    /\ SameRetry

\* a handle that was set aside is dropped
DropHeld ==
    /\ held > 0
    /\ LET r == drop_handle(PoolNow, PlainHandle) IN
         /\ held' = held - 1
         /\ UNCHANGED pc
         /\ SetPool(r.p, r.wake, NoTask, "drop")
    /\ UNCHANGED cur
    /\ SameRetry

\* the task drops the handle it works with
DropHandle(t) ==
    /\ pc[t] = "have"
    /\ LET r == drop_handle(PoolNow, cur[t]) IN
         /\ pc' = [pc EXCEPT ![t] = "none"]
         /\ cur' = [cur EXCEPT ![t] = NoHandle]
         /\ SetPoolEnded(r.p, r.wake, t, "drop",
                         IF ended[t] = "eof" /\ keeps(PoolNow, cur[t])
                         THEN "idle" ELSE "none")
    /\ UNCHANGED held
    /\ SameRetry

\* a panic unwinds the task, which drops the handle h; why is "unreachable"
\* (the unreachable!() of PoolBinding::detach or attach) or "unwrap"
\* (inner.take().unwrap() on None), and ended records it
Panic(t, h, why) ==
    /\ LET r == drop_handle(PoolNow, h) IN
         /\ pc' = [pc EXCEPT ![t] = "none"]
         /\ cur' = [cur EXCEPT ![t] = NoHandle]
         /\ SetPoolEnded(r.p, r.wake, t, "drop", why)
    /\ UNCHANGED held
    /\ NoRetry(t)

\* PoolBinding::detach: take() leaves None behind, and unreachable!() is
\* hit unless the binding was Attached
detach(h) == IF is_attached(h) THEN [h EXCEPT !.pool = "Detached"]
                               ELSE [h EXCEPT !.pool = "None"]
detach_panics(h) == ~is_attached(h)

\* ClientHandle::check_connection up to the call of retry
CheckConnection(t) ==
    /\ pc[t] = "have"
    /\ Cardinality({u \in Tasks : pc[u] \in QueryPcs}) < MaxQuerying
    /\ IF detach_panics(cur[t])
       THEN Panic(t, detach(cur[t]), "unreachable")
       ELSE /\ pc' = [pc EXCEPT ![t] = "ping"]
            /\ cur' = [cur EXCEPT ![t] = detach(@)]
            /\ NoRetry(t)
            /\ SetPool(PoolNow, {}, t, "drop")
            /\ UNCHANGED held

\* mutant: the handle is not attached again
attach_forgotten(h) == h

\* the end of check_connection after retry returned Ok
attach_after_retry(h) ==
    IF ~is_attached(h) /\ is_some(h) THEN [h EXCEPT !.pool = "Attached"] ELSE h

\* retry gives up: if attempt >= MAX_RETRY_ATTEMTS { return Err(err) }
gives_up(n) == n >= MAX_RETRY_ATTEMTS

\* retry: match handle.ping().await; a failed ping drops the transport,
\* and so does a ping whose packet stream ended without a Pong ("ended"),
\* which returns Ok all the same
Ping(t) ==
    /\ pc[t] = "ping"
    /\ IF ~cur[t].inner
       THEN Panic(t, cur[t], "unwrap")
       ELSE \E out \in {"pong", "err", "ended"} :
              CASE out = "pong" ->
                   /\ pc' = [pc EXCEPT ![t] = "checked"]
                   /\ cur' = [cur EXCEPT ![t] = attach_after_retry(@)]
                   /\ SetPool(PoolNow, {}, t, "drop")
                   /\ SameRetry
                   /\ UNCHANGED held
                [] out = "ended" ->
                   LET r == transport_drop(PoolNow, cur[t].inside) IN
                   /\ pc' = [pc EXCEPT ![t] = "checked"]
                   /\ cur' = [cur EXCEPT ![t] =
                                attach_after_retry(Handle(@.pool, FALSE, FALSE))]
                   /\ SetPool(r.p, r.wake, t, "drop")
                   /\ SameRetry
                   /\ UNCHANGED held
                [] out = "err" ->
                   LET r == transport_drop(PoolNow, cur[t].inside) IN
                   /\ cur' = [cur EXCEPT ![t] = Handle(@.pool, FALSE, FALSE)]
                   /\ IF gives_up(attempt[t])
                      THEN /\ pc' = [pc EXCEPT ![t] = "have"]
                           /\ NoRetry(t)
                      ELSE /\ pc' = [pc EXCEPT ![t] = "reconnect"]
                           /\ SetRetry(t, attempt[t], FALSE,
                                       Inc(reconnects[t]), "ping")
                   /\ SetPool(r.p, r.wake, t, "drop")
                   /\ UNCHANGED held

\* retry: match reconnect(handle, source, pool.clone()).await, where
\* reconnect polls p.get_handle(), swaps the new handle in and drops the
\* old one
ReconnectPoll(t) ==
    /\ Polled(t, "reconnect", "reconnect_wait")
    /\ \E first \in {"pending", "err"} :
         LET r == poll(PoolNow, t, first) IN
         CASE r.res = "ready" ->
                LET d == drop_handle(r.p, cur[t]) IN
                /\ pc' = [pc EXCEPT ![t] = "ping"]
                /\ cur' = [cur EXCEPT ![t] = r.client]
                /\ SetPool(d.p, d.wake, t, "drop")
                /\ SameRetry
           [] r.res = "err" ->
                /\ IF gives_up(attempt[t])
                   THEN /\ pc' = [pc EXCEPT ![t] = "have"]
                        /\ NoRetry(t)
                   ELSE /\ pc' = [pc EXCEPT ![t] = "sleep"]
                        /\ SetRetry(t, attempt[t], TRUE, reconnects[t], via[t])
                /\ cur' = cur
                /\ SetPool(r.p, {}, t, "drop")
           [] r.res = "pending" ->
                /\ pc' = [pc EXCEPT ![t] = "reconnect_wait"]
                /\ cur' = cur
                /\ SetPool(r.p, {}, t, "drop")
                /\ SameRetry
    /\ UNCHANGED held

\* retry: tokio::time::sleep(RETRY_TIMEOUT).await; attempt += 1; and the
\* top of the loop, which clears skip_check and goes to reconnect
Sleep(t) ==
    /\ pc[t] = "sleep"
    /\ pc' = [pc EXCEPT ![t] = "reconnect"]
    /\ SetRetry(t, attempt[t] + 1, FALSE, Inc(reconnects[t]), "sleep")
    /\ SetPool(PoolNow, {}, t, "drop")
    /\ UNCHANGED <<held, cur>>

\* the stream of wrap_stream is dropped while check_connection is suspended:
\* in reconnect's get_handle, in the sleep, or in a ping, whose future holds
\* the transport and drops it with itself (the step after Ping's "err")
CancelCheck(t) ==
    /\ pc[t] \in CheckPcs \ {"ping"}
    /\ pc' = [pc EXCEPT ![t] = "have"]
    /\ NoRetry(t)
    /\ SetPool(PoolNow, {}, t, "drop")
    /\ UNCHANGED <<held, cur>>

\* the closure of QueryResult::_stream_blocks: c.pool.detach();
\* c.inner.take().unwrap().call(Cmd::SendQuery(..))
QueryStart(t) ==
    /\ pc[t] = "checked"
    /\ IF detach_panics(cur[t]) \/ ~cur[t].inner
       THEN IF detach_panics(cur[t])
            THEN Panic(t, detach(cur[t]), "unreachable")
            ELSE Panic(t, cur[t], "unwrap")
       ELSE /\ pc' = [pc EXCEPT ![t] = "stream"]
            /\ cur' = [cur EXCEPT ![t] = Handle("Detached", FALSE, FALSE)]
            /\ SetPool(PoolNow, {}, t, "drop")
            /\ UNCHANGED held
            /\ NoRetry(t)

\* mutant: the Eof arm does not attach the handle again
stream_end_detached(h, how) ==
    CASE how = "eof"        -> Handle(h.pool, TRUE, FALSE)
      [] how = "exception"  -> Handle(h.pool, TRUE, FALSE)
      [] how = "dropped"    -> Handle("Attached", TRUE, FALSE)
      [] how = "unexpected" -> Handle("Attached", FALSE, FALSE)
      [] how = "lost"       -> Handle(h.pool, FALSE, FALSE)

\* BlockStream::poll_next up to the end of the stream, and BlockStream::drop
\*   "eof":        Packet::Eof(inner) is consumed
\*   "exception":  Packet::Exception ends the stream, or the packet stream
\*                 ends without Eof
\*   "dropped":    the stream is dropped before its end
\*   "unexpected": a Hello or Pong packet took the transport along and the
\*                 stream is dropped after the error item
\*   "lost":       the same, and the stream is polled to its end
stream_end(h, how) ==
    CASE how = "eof"        -> Handle("Attached", TRUE, FALSE)
      [] how = "exception"  -> Handle(h.pool, TRUE, FALSE)
      [] how = "dropped"    -> Handle("Attached", TRUE, FALSE)
      [] how = "unexpected" -> Handle("Attached", FALSE, FALSE)
      [] how = "lost"       -> Handle(h.pool, FALSE, FALSE)

\* the packet that took the transport along is dropped, the transport with it
loses_transport(how) == how \in {"unexpected", "lost"}

StreamEnd(t) ==
    /\ pc[t] = "stream"
    /\ \E how \in {"eof", "exception", "dropped", "unexpected", "lost"} :
         LET r == IF loses_transport(how) THEN transport_drop(PoolNow, FALSE)
                                          ELSE no_release(PoolNow) IN
         /\ pc' = [pc EXCEPT ![t] = "have"]
         /\ cur' = [cur EXCEPT ![t] = stream_end(@, how)]
         /\ SetPoolEnded(r.p, r.wake, t, "drop", how)
    /\ UNCHANGED held
    /\ SameRetry

(* -------------------------- session: steps ---------------------------- *)
\* the block stream's fields are left alone
SameBlockStream == UNCHANGED <<eof, block_index, sent, items, last>>

\* Client::open: handle.hello().await, up to the first poll of the stream
HelloCall ==
    /\ spc = "open"
    /\ spc' = "hello"
    /\ conn' = [conn EXCEPT !.inner = FALSE]
    /\ stream' = call
    /\ hback' = FALSE
    /\ info' = 0
    /\ result' = NoResult
    /\ packet' = EndOfPackets
    /\ SameBlockStream
    /\ UNCHANGED <<poolvars, purevars>>

\* mutant: the server info is not stored
after_hello_default(c, transport, server_info) ==
    [c EXCEPT !.inner = transport]

\* ClientHandle::hello: self.inner = h; self.context.server_info =
\* info.unwrap() (which panics on None: nothing is stored)
after_hello(c, transport, server_info) ==
    [c EXCEPT !.inner = transport,
              !.server_info = IF server_info # 0 THEN server_info ELSE @]

\* ClientHandle::hello: one turn of while let Some(packet) =
\* stream.next().await, and what follows the loop
HelloNext ==
    /\ spc = "hello"
    /\ \E pkt \in Arrivals :
         /\ packet' = taken(pkt)
         /\ CASE pkt.kind = "None" ->
                /\ conn' = after_hello(conn, hback, info)
                /\ result' = IF info = 0 THEN Res("panic", 0) ELSE Res("Ok", 0)
                /\ spc' = IF info = 0 THEN "panicked" ELSE "idle"
                /\ stream' = NoStream
                /\ UNCHANGED <<hback, info>>
           [] pkt.kind = "Hello" ->
                /\ hback' = TRUE
                /\ info' = pkt.a
                /\ stream' = yielded(pkt)
                /\ UNCHANGED <<conn, result, spc>>
           [] pkt.kind = "Exception" ->
                /\ result' = Res("Server", pkt.a)
                /\ spc' = "failed"
                /\ stream' = NoStream
                /\ UNCHANGED <<conn, hback, info>>
           [] pkt.kind = "IoErr" ->
                /\ result' = Res("IO", 0)
                /\ spc' = "failed"
                /\ stream' = NoStream
                /\ UNCHANGED <<conn, hback, info>>
           [] OTHER ->
                /\ stream' = yielded(pkt)
                /\ UNCHANGED <<conn, result, spc, hback, info>>
    /\ SameBlockStream
    /\ UNCHANGED <<poolvars, purevars>>

\* Pool::take_conn hands the handle out
TakeConn ==
    /\ spc = "idle"
    /\ spc' = "have"
    /\ conn' = [conn EXCEPT !.pool = "Attached"]
    /\ UNCHANGED <<stream, hback, info, packet, result>>
    /\ SameBlockStream
    /\ UNCHANGED <<poolvars, purevars>>

\* ClientHandle::check_connection: self.pool.detach(), and in ping
\* self.inner.take().unwrap().clear().await? and transport.call(Cmd::Ping)
PingCall ==
    /\ spc = "have"
    /\ IF detach_panics(conn) \/ ~conn.inner
       THEN /\ spc' = "panicked"
            /\ result' = Res("panic", 0)
            /\ conn' = IF detach_panics(conn) THEN detach(conn) ELSE conn
            /\ stream' = NoStream
       ELSE /\ conn' = [detach(conn) EXCEPT !.inner = FALSE,
                                            !.inconsistent = FALSE]
            /\ IF clear_fails(conn)
               THEN /\ spc' = "failed"
                    /\ result' = Res("IO", 0)
                    /\ stream' = NoStream
               ELSE /\ spc' = "ping"
                    /\ result' = NoResult
                    /\ stream' = call
    /\ hback' = FALSE
    /\ packet' = EndOfPackets
    /\ UNCHANGED info
    /\ SameBlockStream
    /\ UNCHANGED <<poolvars, purevars>>

\* ClientHandle::ping: one turn of while let Some(packet) =
\* stream.next().await, and what follows the loop; after Ok retry returns
\* and check_connection attaches the handle
PingNext ==
    /\ spc = "ping"
    /\ \E pkt \in Arrivals :
         /\ packet' = taken(pkt)
         /\ CASE pkt.kind = "None" ->
                /\ conn' = attach_after_retry([conn EXCEPT !.inner = hback])
                /\ result' = Res("Ok", 0)
                /\ spc' = "checked"
                /\ stream' = NoStream
                /\ hback' = hback
           [] pkt.kind = "Pong" ->
                /\ hback' = TRUE
                /\ stream' = yielded(pkt)
                /\ UNCHANGED <<conn, result, spc>>
           [] pkt.kind = "Exception" ->
                /\ result' = Res("Server", pkt.a)
                /\ spc' = "failed"
                /\ stream' = NoStream
                /\ UNCHANGED <<conn, hback>>
           [] pkt.kind = "IoErr" ->
                /\ result' = Res("IO", 0)
                /\ spc' = "failed"
                /\ stream' = NoStream
                /\ UNCHANGED <<conn, hback>>
           [] OTHER ->
                /\ stream' = yielded(pkt)
                /\ UNCHANGED <<conn, result, spc, hback>>
    /\ UNCHANGED info
    /\ SameBlockStream
    /\ UNCHANGED <<poolvars, purevars>>

\* ClientHandle::ping: with_timeout elapses
PingTimeout ==
    /\ spc = "ping"
    /\ spc' = "failed"
    /\ result' = Res("Timeout", 0)
    /\ stream' = NoStream
    /\ UNCHANGED <<conn, hback, info, packet>>
    /\ SameBlockStream
    /\ UNCHANGED <<poolvars, purevars>>

\* the closure of QueryResult::_stream_blocks: c.pool.detach();
\* c.inner.take().unwrap().call(Cmd::SendQuery(..)); BlockStream::new
SendQuery ==
    /\ spc = "checked"
    /\ IF detach_panics(conn) \/ ~conn.inner
       THEN /\ spc' = "panicked"
            /\ result' = Res("panic", 0)
            /\ conn' = IF detach_panics(conn) THEN detach(conn) ELSE conn
            /\ stream' = NoStream
       ELSE /\ spc' = "query"
            /\ result' = NoResult
            /\ conn' = [detach(conn) EXCEPT !.inner = FALSE]
            /\ stream' = call
    /\ eof' = FALSE
    /\ block_index' = 0
    /\ sent' = <<>>
    /\ items' = <<>>
    /\ last' = "none"
    /\ packet' = EndOfPackets
    /\ UNCHANGED <<hback, info>>
    /\ UNCHANGED <<poolvars, purevars>>

\* BlockStream::poll_next, the Block arm: the index-th block is yielded
yields(index, block) ==
    (index > 1 \/ ~skip_first_block) /\ ~is_empty(block)

\* BlockStream::poll_next, the Eof arm
eof_arm(c) ==
    [c EXCEPT !.inner = TRUE, !.inconsistent = FALSE,
              !.pool = IF ~is_attached(c) THEN "Attached" ELSE @]

\* mutant: the Exception arm does not end the stream
ends_stream_not_on_exception(kind) == kind \in {"None", "Eof"}

\* BlockStream::poll_next: the arms that set self.eof = true
ends_stream(kind) == kind \in {"None", "Eof", "Exception"}

\* BlockStream::poll_next, from one poll of the packet stream to the next:
\* last is "Item", "None", or "Pending" where the loop goes on
PollNext ==
    /\ spc = "query"
    /\ IF eof
       THEN /\ last' = "None"
            /\ UNCHANGED <<conn, stream, packet, eof, block_index, sent,
                           items>>
       ELSE \E pkt \in Arrivals :
              /\ packet' = taken(pkt)
              /\ stream' = yielded(pkt)
              /\ eof' = ends_stream(pkt.kind)
              /\ CASE pkt.kind = "None" ->
                        /\ last' = "None"
                        /\ UNCHANGED <<conn, block_index, sent, items>>
                   [] pkt.kind = "IoErr" ->
                        /\ items' = Append(items, ErrItem("IO", 0))
                        /\ last' = "Item"
                        /\ UNCHANGED <<conn, block_index, sent>>
                   [] pkt.kind = "Eof" ->
                        /\ conn' = eof_arm(conn)
                        /\ last' = "None"
                        /\ UNCHANGED <<block_index, sent, items>>
                   [] pkt.kind \in {"ProfileInfo", "Progress"} ->
                        /\ last' = "Pending"
                        /\ UNCHANGED <<conn, block_index, sent, items>>
                   [] pkt.kind = "Exception" ->
                        /\ items' = Append(items, ErrItem("Server", pkt.a))
                        /\ last' = "Item"
                        /\ UNCHANGED <<conn, block_index, sent>>
                   [] pkt.kind = "Block" ->
                        /\ block_index' = block_index + 1
                        /\ sent' = Append(sent, pkt.block)
                        /\ IF yields(block_index + 1, pkt.block)
                           THEN /\ items' = Append(items,
                                        OkItem(block_index + 1, pkt.block))
                                /\ last' = "Item"
                           ELSE /\ items' = items
                                /\ last' = "Pending"
                        /\ UNCHANGED conn
                   [] OTHER ->
                        /\ items' = Append(items, ErrItem("UnexpectedPacket", 0))
                        /\ last' = "Item"
                        /\ UNCHANGED <<conn, block_index, sent>>
    /\ UNCHANGED <<spc, hback, info, result>>
    /\ UNCHANGED <<poolvars, purevars>>

\* impl Drop for BlockStream
drop_stream(c) ==
    LET a == IF ~eof /\ ~is_attached(c) THEN [c EXCEPT !.pool = "Attached"]
                                        ELSE c
    IN  IF ~a.inner /\ take_transport
        THEN [a EXCEPT !.inner = TRUE, !.inconsistent = TRUE]
        ELSE a

\* the block stream is dropped
DropStream ==
    /\ spc = "query"
    /\ spc' = "have"
    /\ conn' = drop_stream(conn)
    /\ stream' = NoStream
    /\ UNCHANGED <<hback, info, packet, result>>
    /\ SameBlockStream
    /\ UNCHANGED <<poolvars, purevars>>

(* ------------------- session: check_connection fails ------------------- *)
\* what reconnect returns when it fails: the error of Client::open or of
\* pool.get_handle (an I/O error, the timeout, or the server's Exception)
ReconnectErrors ==
    {Res("IO", 0), Res("Timeout", 0)} \cup {Res("Server", c) : c \in Codes}

\* mutant: the closure is run whatever check_connection returned
wrap_stream_always(checked) == "checked"

\* ClientHandle::wrap_stream: match self.check_connection().await with
\* Ok(_) => f(self), the closure of the query, and
\* Err(err) => stream::once(future::err(err))
wrap_stream(checked) == IF checked.kind = "Ok" THEN "checked" ELSE "once"

\* the ping of check_connection has failed and retry gives up: it returns
\* the error of the ping, or the error of the reconnect that failed last
\* (the attempts in between are steps of the pool), check_connection returns
\* it with ?, and wrap_stream builds its stream
CheckFailed ==
    /\ spc = "failed"
    /\ conn.server_info # 0
    /\ \E err \in {result} \cup ReconnectErrors :
         /\ result' = err
         /\ spc' = wrap_stream(err)
    /\ eof' = FALSE
    /\ block_index' = 0
    /\ sent' = <<>>
    /\ items' = <<>>
    /\ last' = "none"
    /\ UNCHANGED <<conn, stream, hback, info, packet>>
    /\ UNCHANGED <<poolvars, purevars>>

\* stream::once(future::err(err)), polled: the error, then None
OncePoll ==
    /\ spc = "once"
    /\ IF last = "none"
       THEN /\ items' = Append(items, ErrItem(result.kind, result.code))
            /\ last' = "Item"
       ELSE /\ items' = items
            /\ last' = "None"
    /\ UNCHANGED <<spc, conn, stream, hback, info, packet, result, eof,
                   block_index, sent>>
    /\ UNCHANGED <<poolvars, purevars>>

\* the stream of wrap_stream is dropped: the handle is as check_connection
\* left it
DropOnce ==
    /\ spc = "once"
    /\ spc' = "unchecked"
    /\ UNCHANGED <<conn, stream, hback, info, packet, result>>
    /\ SameBlockStream
    /\ UNCHANGED <<poolvars, purevars>>

SessionNext ==
    \/ HelloCall
    \/ HelloNext
    \/ TakeConn
    \/ PingCall
    \/ PingNext
    \/ PingTimeout
    \/ SendQuery
    \/ PollNext
    \/ DropStream
    \/ CheckFailed
    \/ OncePoll
    \/ DropOnce

(* ------------------------- codec: integers ----------------------------- *)
\* A u64 is the set of the positions of its 1 bits (the integers of the
\* checker are narrower than 64 bits); a byte is a number in 0..255.

\* the bits of the byte b
byte_bits(b) == {k \in 0..7 : (b \div 2^k) % 2 = 1}

\* the byte whose bits are bs, bs within 0..7
RECURSIVE bits_byte(_)
bits_byte(bs) ==
    IF bs = {} THEN 0
    ELSE LET k == CHOOSE j \in bs : TRUE IN 2^k + bits_byte(bs \ {k})

\* x as u8
as_u8(x) == bits_byte(x \cap (0..7))

\* x >> n and x << n on u64, n < 64: the bits shifted out are lost
shr(x, n) == {k - n : k \in {j \in x : j >= n}}
shl(x, n) == {k + n : k \in {j \in x : j + n <= 63}}

\* mutant: the continuation bit is not set
RECURSIVE put_uvarint_loop_plain(_, _)
put_uvarint_loop_plain(mx, buf) ==
    IF \E k \in mx : k >= 7
    THEN put_uvarint_loop_plain(shr(mx, 7), Append(buf, as_u8(mx)))
    ELSE Append(buf, as_u8(mx))

\* put_uvarint, the loop while mx >= 0x80 { buf[i] = mx as u8 | 0x80;
\* mx >>= 7; i += 1 } and buf[i] = mx as u8; buf holds the i bytes written
RECURSIVE put_uvarint_loop(_, _)
put_uvarint_loop(mx, buf) ==
    IF \E k \in mx : k >= 7
    THEN put_uvarint_loop(shr(mx, 7),
                          Append(buf, bits_byte((mx \cap (0..7)) \cup {7})))
    ELSE Append(buf, as_u8(mx))

\* put_uvarint(buffer, x): the bytes written; it returns their number
put_uvarint(x) == put_uvarint_loop(x, <<>>)

\* Result<V> of a read, and what is left of the reader
ReadOk(value, rest) == [kind |-> "Ok", value |-> value, rest |-> rest]
ReadErr(kind, rest) == [kind |-> kind, value |-> {}, rest |-> rest]

\* mutant: what is there is returned when the reader ends early
read_bytes_short(reader, n) ==
    IF Len(reader) >= n
    THEN ReadOk(SubSeq(reader, 1, n), SubSeq(reader, n + 1, Len(reader)))
    ELSE ReadOk(reader, <<>>)

\* ReadEx::read_bytes for rv.len() = n on an in-memory reader: read returns
\* Ok(0) when the reader is exhausted, which is the I/O error
read_bytes(reader, n) ==
    IF Len(reader) >= n
    THEN ReadOk(SubSeq(reader, 1, n), SubSeq(reader, n + 1, Len(reader)))
    ELSE ReadErr("IO", <<>>)

(* --------------------------- codec: scalars ---------------------------- *)
\* The fixed-width primitives.  A value is the set of the positions of the
\* 1 bits of its representation: two's complement for the signed integers
\* (so that `as u8` and `as i8` keep the set), the bit pattern of to_bits for
\* the floats, {0} for true and {} for false.
Primitives ==
    {"u8", "u16", "u32", "u64", "i8", "i16", "i32", "i64", "f32", "f64",
     "bool"}

\* size_of::<T>(), the length of T::buffer()
size_of(ty) ==
    CASE ty \in {"u8", "i8", "bool"} -> 1
      [] ty \in {"u16", "i16"} -> 2
      [] ty \in {"u32", "i32", "f32"} -> 4
      [] ty \in {"u64", "i64", "f64"} -> 8

\* T::buffer()
buffer(ty) == [j \in 1..size_of(ty) |-> 0]

\* mutant: the most significant byte first
to_be_bytes(v, w) ==
    [j \in 1..w |-> bits_byte({k - 8 * (w - j) : k \in {b \in v : b \div 8 = w - j}})]

\* v.to_le_bytes() of a type of w bytes
to_le_bytes(v, w) ==
    [j \in 1..w |-> bits_byte({k - 8 * (j - 1) : k \in {b \in v : b \div 8 = j - 1}})]

\* T::from_le_bytes(bytes)
from_le_bytes(bytes) ==
    UNION {{k + 8 * (j - 1) : k \in byte_bits(bytes[j])} : j \in 1..Len(bytes)}

\* v.marshal(scratch): the scratch buffer afterwards.  copy_from_slice
\* panics when the lengths differ, scratch[0] when scratch is empty
marshal(ty, v, scratch) ==
    IF ty \in {"u8", "i8", "bool"}
    THEN IF scratch = <<>> THEN "panic"
         ELSE [scratch EXCEPT ![1] = bits_byte(v)]
    ELSE IF Len(scratch) # size_of(ty) THEN "panic"
         ELSE to_le_bytes(v, size_of(ty))

\* T::unmarshal(scratch).  try_into().unwrap() panics when the length of
\* scratch is not size_of::<T>(), scratch[0] when scratch is empty
unmarshal(ty, scratch) ==
    CASE ty \in {"u8", "i8"} ->
            IF scratch = <<>> THEN ReadErr("panic", <<>>)
            ELSE ReadOk(byte_bits(scratch[1]), <<>>)
      [] ty = "bool" ->
            IF scratch = <<>> THEN ReadErr("panic", <<>>)
            ELSE ReadOk(IF scratch[1] # 0 THEN {0} ELSE {}, <<>>)
      [] OTHER ->
            IF Len(scratch) # size_of(ty) THEN ReadErr("panic", <<>>)
            ELSE ReadOk(from_le_bytes(scratch), <<>>)

\* ReadEx::read_scalar::<T>
read_scalar(reader, ty) ==
    LET r == read_bytes(reader, size_of(ty)) IN
    IF r.kind # "Ok" THEN r
    ELSE LET u == unmarshal(ty, r.value) IN
         IF u.kind # "Ok" THEN ReadErr("panic", r.rest)
         ELSE ReadOk(u.value, r.rest)

\* ReadEx::read_uvarint, the loop.  overflow_checks is the build's setting:
\* with it a shift by 64 or more panics, without it the shift amount wraps
RECURSIVE read_uvarint_loop(_, _, _, _, _)
read_uvarint_loop(reader, x, s, i, overflow_checks) ==
    LET r == read_scalar(reader, "u8") IN
    IF r.kind # "Ok" THEN r
    ELSE LET b == bits_byte(r.value) IN
         IF b < 128
         THEN IF i > 9 \/ (i = 9 /\ b > 1)
              THEN ReadErr("Overflow", r.rest)
              ELSE ReadOk(x \cup shl(byte_bits(b), s), r.rest)
         ELSE IF s >= 64 /\ overflow_checks
              THEN ReadErr("panic", r.rest)
              ELSE read_uvarint_loop(r.rest,
                                     x \cup shl(byte_bits(b % 128), s % 64),
                                     s + 7, i + 1, overflow_checks)

\* ReadEx::read_uvarint
read_uvarint(reader, overflow_checks) ==
    read_uvarint_loop(reader, {}, 0, 0, overflow_checks)

\* x as usize, for x below 2^MaxLenBits
RECURSIVE as_usize(_)
as_usize(x) ==
    IF x = {} THEN 0
    ELSE LET k == CHOOSE j \in x : TRUE IN 2^k + as_usize(x \ {k})

\* n as u64, for n below 2^MaxLenBits
from_usize(n) == {k \in 0..(MaxLenBits - 1) : (n \div 2^k) % 2 = 1}

\* String::from_utf8(buffer) succeeds: on the bytes used here, which are
\* ASCII letters and 0xFF, a buffer is UTF-8 when it has no 0xFF
valid_utf8(bytes) == \A j \in 1..Len(bytes) : bytes[j] < 128

\* ReadEx::read_string; the String is kept as its bytes
read_string(reader, overflow_checks) ==
    LET l == read_uvarint(reader, overflow_checks) IN
    IF l.kind # "Ok" THEN l
    ELSE LET r == read_bytes(l.rest, as_usize(l.value)) IN
         IF r.kind # "Ok" THEN r
         ELSE IF valid_utf8(r.value) THEN r
              ELSE ReadErr("FromUtf8", r.rest)

\* encoder.string(text): the length as uvarint, then the bytes
put_string(text) == put_uvarint(from_usize(Len(text))) \o text

\* the u64 values tried: one bit, the low bits up to one, and some others
U64Samples ==
    {{k} : k \in 0..63} \cup {0..k : k \in 0..63}
        \cup {{}, {0, 63}, {7, 14}, {6, 7}, {1, 62}}

\* the number of significant bits of x
bits(x) == IF x = {} THEN 0 ELSE (CHOOSE k \in x : \A j \in x : j <= k) + 1

\* the inputs of the round trip of put_uvarint and read_uvarint
UvarintInputs ==
    [test : {"uvarint"}, x : U64Samples, overflow_checks : BOOLEAN]

\* n times the byte c
Run(n, c) == [j \in 1..n |-> c]

\* byte sequences for read_uvarint: a run of continuation bytes, then a last
\* byte or the end of the reader
OverlongInputs ==
    {[test |-> "overlong", bytes |-> Run(n, c) \o last_byte,
      overflow_checks |-> oc] :
        n \in 0..MaxContinuation, c \in {128, 129, 255},
        last_byte \in {<<>>, <<0>>, <<1>>, <<2>>, <<127>>}, oc \in BOOLEAN}

\* the strings tried, as bytes
Texts ==
    {<<>>, <<65>>, <<65, 66>>, <<66, 65, 66>>, <<65, 255>>,
     [j \in 1..LongString |-> 65 + (j % 2)]}

\* the prefixes of the bytes enc, enc included
Prefixes(enc) == {SubSeq(enc, 1, n) : n \in 0..Len(enc)}

\* a call of one of the read functions on a prefix of an encoding enc:
\* what is the function, ty the type of read_scalar, n the length of the
\* buffer of read_bytes
ShortCall(what, ty, n, enc) ==
    [test : {"short"}, what : {what}, ty : {ty}, n : {n}, enc : {enc},
     bytes : Prefixes(enc), overflow_checks : BOOLEAN]

\* the inputs of the reads of truncated encodings
ShortInputs ==
    UNION ({ShortCall("read_bytes", "u8", Len(t), t) : t \in Texts}
           \cup {ShortCall("read_scalar", ty, 0, marshal(ty, v, buffer(ty))) :
                    ty \in Primitives, v \in {{}, {0}, {0, 7}}}
           \cup {ShortCall("read_string", "u8", 0, put_string(t)) : t \in Texts}
           \cup {ShortCall("read_uvarint", "u8", 0, put_uvarint(x)) :
                    x \in {{}, {7}, {14}, {0, 63}, 0..63}})

\* reader.read_bytes(rv)
ReadBytes ==
    /\ fun = "read_bytes"
    /\ output' = read_bytes(wire, input.n)
    /\ fun' = "done"
    /\ UNCHANGED <<input, wire>>
    /\ UNCHANGED <<poolvars, svars>>

\* reader.read_scalar::<T>()
ReadScalar ==
    /\ fun = "read_scalar"
    /\ output' = read_scalar(wire, input.ty)
    /\ fun' = "done"
    /\ UNCHANGED <<input, wire>>
    /\ UNCHANGED <<poolvars, svars>>

\* reader.read_string()
ReadString ==
    /\ fun = "read_string"
    /\ output' = read_string(wire, input.overflow_checks)
    /\ fun' = "done"
    /\ UNCHANGED <<input, wire>>
    /\ UNCHANGED <<poolvars, svars>>

\* encoder.uvarint(x): put_uvarint into the scratch buffer
PutUvarint ==
    /\ fun = "put_uvarint"
    /\ wire' = put_uvarint(input.x)
    /\ fun' = "read_uvarint"
    /\ UNCHANGED <<input, output>>
    /\ UNCHANGED <<poolvars, svars>>

\* reader.read_uvarint()
ReadUvarint ==
    /\ fun = "read_uvarint"
    /\ output' = read_uvarint(wire, input.overflow_checks)
    /\ fun' = "done"
    /\ UNCHANGED <<input, wire>>
    /\ UNCHANGED <<poolvars, svars>>

\* the values of a type of w bits that are tried
BitSamples(w) ==
    {{k} : k \in 0..(w - 1)} \cup {0..k : k \in 0..(w - 1)}
        \cup {{}, {0, w - 1}, {1, 8}, {7, w - 2}}

\* the values of the primitive ty that are tried
ValuesOf(ty) ==
    CASE ty \in {"u8", "i8"} -> SUBSET (0..7)
      [] ty = "bool" -> {{}, {0}}
      [] OTHER -> BitSamples(8 * size_of(ty))

\* the inputs of the round trip of marshal and unmarshal
MarshalInputs ==
    UNION {[test : {"marshal"}, ty : {t}, v : ValuesOf(t)] : t \in Primitives}

\* v.marshal(buffer.as_mut()) on buffer = T::buffer()
Marshal ==
    /\ fun = "marshal"
    /\ wire' = marshal(input.ty, input.v, buffer(input.ty))
    /\ fun' = "unmarshal"
    /\ UNCHANGED <<input, output>>
    /\ UNCHANGED <<poolvars, svars>>

\* T::unmarshal(buffer.as_ref())
Unmarshal ==
    /\ fun = "unmarshal"
    /\ output' = unmarshal(input.ty, wire)
    /\ fun' = "done"
    /\ UNCHANGED <<input, wire>>
    /\ UNCHANGED <<poolvars, svars>>

(* ------------------------- column: concat ------------------------------ *)
\* A Vec is a sequence; its element number j, counted from 0 as the code
\* counts, is v[j + 1], and indexing outside of 0..len-1 panics.

\* build_index(sizes): 0, then the running sums of the sizes
RECURSIVE build_index_loop(_, _, _)
build_index_loop(sizes, acc, index) ==
    IF sizes = <<>> THEN index
    ELSE build_index_loop(Tail(sizes), acc + Head(sizes),
                          Append(index, acc + Head(sizes)))

build_index(sizes) == build_index_loop(sizes, 0, <<0>>)

\* j is an index of the slice v
in_bounds(v, j) == 0 <= j /\ j < Len(v)

\* mutant: the chunk is left only when ix is beyond its end
RECURSIVE find_chunk_loop_beyond(_, _, _, _, _)
find_chunk_loop_beyond(index, ix, lo, hi, steps) ==
    IF ~(lo < hi) THEN [kind |-> "Ok", value |-> 0]
    ELSE IF steps > 2 * Len(index) THEN [kind |-> "loops", value |-> 0]
    ELSE LET mid == lo + ((hi - lo) \div 2) IN
         IF ~in_bounds(index, lo) \/ ~in_bounds(index, lo + 1)
         THEN [kind |-> "panic", value |-> 0]
         ELSE IF index[lo + 1] = index[lo + 2]
         THEN find_chunk_loop_beyond(index, ix, lo + 1, hi, steps + 1)
         ELSE IF ~in_bounds(index, mid) THEN [kind |-> "panic", value |-> 0]
         ELSE IF ix < index[mid + 1]
         THEN find_chunk_loop_beyond(index, ix, lo, mid, steps + 1)
         ELSE IF ~in_bounds(index, mid + 1)
         THEN [kind |-> "panic", value |-> 0]
         ELSE IF ix > index[mid + 2]
         THEN find_chunk_loop_beyond(index, ix, mid + 1, hi, steps + 1)
         ELSE [kind |-> "Ok", value |-> mid]

\* find_chunk, the loop while lo < hi; steps counts the iterations, and a
\* loop that goes on after more of them than it has room for is cut
RECURSIVE find_chunk_loop(_, _, _, _, _)
find_chunk_loop(index, ix, lo, hi, steps) ==
    IF ~(lo < hi) THEN [kind |-> "Ok", value |-> 0]
    ELSE IF steps > 2 * Len(index) THEN [kind |-> "loops", value |-> 0]
    ELSE LET mid == lo + ((hi - lo) \div 2) IN
         IF ~in_bounds(index, lo) \/ ~in_bounds(index, lo + 1)
         THEN [kind |-> "panic", value |-> 0]
         ELSE IF index[lo + 1] = index[lo + 2]
         THEN find_chunk_loop(index, ix, lo + 1, hi, steps + 1)
         ELSE IF ~in_bounds(index, mid) THEN [kind |-> "panic", value |-> 0]
         ELSE IF ix < index[mid + 1]
         THEN find_chunk_loop(index, ix, lo, mid, steps + 1)
         ELSE IF ~in_bounds(index, mid + 1)
         THEN [kind |-> "panic", value |-> 0]
         ELSE IF ix >= index[mid + 2]
         THEN find_chunk_loop(index, ix, mid + 1, hi, steps + 1)
         ELSE [kind |-> "Ok", value |-> mid]

\* find_chunk(index, ix); index.len() - 1 underflows on an empty index
find_chunk(index, ix) ==
    IF index = <<>> THEN [kind |-> "panic", value |-> 0]
    ELSE find_chunk_loop(index, ix, 0, Len(index) - 1, 0)

\* ConcatColumnData::at(index) on chunks of the lengths sizes: the chunk
\* and the offset in it that chunk.at is called with.  self.data[k],
\* self.index[k], the subtraction and chunk.at panic outside their range
concat_at(sizes, index, ix) ==
    LET f == find_chunk(index, ix) IN
    IF f.kind # "Ok" THEN [kind |-> f.kind, value |-> <<0, 0>>]
    ELSE LET k == f.value IN
         IF \/ ~in_bounds(sizes, k)
            \/ ~in_bounds(index, k)
         THEN [kind |-> "panic", value |-> <<k, 0>>]
         ELSE IF ix < index[k + 1] \/ ix - index[k + 1] >= sizes[k + 1]
         THEN [kind |-> "panic", value |-> <<k, 0>>]
         ELSE [kind |-> "Ok", value |-> <<k, ix - index[k + 1]>>]

\* the sum of the first k of the sizes
RECURSIVE SumTo(_, _)
SumTo(sizes, k) == IF k = 0 THEN 0 ELSE SumTo(sizes, k - 1) + sizes[k]

\* the lists of chunk lengths tried
ChunkSizes == UNION {[1..n -> 0..MaxChunkLen] : n \in 1..MaxChunks}

\* the inputs of the lookups in a concatenated column: chunks of which one
\* at least has a row, and a row number of the column
ConcatInputs ==
    UNION {[test : {"concat"}, sizes : {sz},
            ix : 0..(SumTo(sz, Len(sz)) - 1)] : sz \in ChunkSizes}

\* ConcatColumnData::concat(data): the index of the chunks
Concat ==
    /\ fun = "concat"
    /\ wire' = build_index(input.sizes)
    /\ fun' = "at"
    /\ UNCHANGED <<input, output>>
    /\ UNCHANGED <<poolvars, svars>>

\* column.at(ix)
At ==
    /\ fun = "at"
    /\ output' = concat_at(input.sizes, wire, input.ix)
    /\ fun' = "done"
    /\ UNCHANGED <<input, wire>>
    /\ UNCHANGED <<poolvars, svars>>

(* ------------------------------ values --------------------------------- *)
\* SqlType: the variant, the length of a FixedString, and the nested type
\* of Nullable and Array
Simple(name) == [name |-> name, size |-> 0, nested |-> <<>>]
Nested(name, t) == [name |-> name, size |-> 0, nested |-> <<t>>]

\* the variants of Value and ValueRef with a scalar payload
ScalarTags ==
    {"UInt8", "UInt16", "UInt32", "UInt64", "Int8", "Int16", "Int32",
     "Int64", "Int256", "String", "Float32", "Float64"}

\* Value and ValueRef.  A payload is a number that stands for it; NaN is
\* the float that differs from itself.  Nullable is Either::Left(type),
\* kept in ty with no inner value, or Either::Right(value), the one inner
\* value; Array is its type in ty and its elements in inner.
NaN == 2
Scalar(tag, v) == [tag |-> tag, v |-> v, ty |-> <<>>, inner |-> <<>>]
Null(t) == [tag |-> "Nullable", v |-> 0, ty |-> <<t>>, inner |-> <<>>]
Some(x) == [tag |-> "Nullable", v |-> 0, ty |-> <<>>, inner |-> <<x>>]
Array(t, xs) == [tag |-> "Array", v |-> 0, ty |-> <<t>>, inner |-> xs]

\* the variants that PartialEq for Value and for ValueRef have an arm for
\* with a payload compared by ==
EqArms ==
    {"UInt8", "UInt16", "UInt32", "UInt64", "Int8", "Int16", "Int32",
     "Int64", "String", "Float32", "Float64"}

\* a == b on payloads of the variant tag
payload_eq(tag, a, b) ==
    IF tag \in {"Float32", "Float64"} THEN a = b /\ a # NaN ELSE a = b

\* impl PartialEq for Value
RECURSIVE value_eq(_, _)
value_eq(a, b) ==
    CASE a.tag \in EqArms /\ b.tag = a.tag -> payload_eq(a.tag, a.v, b.v)
      [] a.tag = "Nullable" /\ b.tag = "Nullable" ->
            /\ Len(a.inner) = Len(b.inner)
            /\ IF a.inner = <<>> THEN a.ty = b.ty
               ELSE value_eq(a.inner[1], b.inner[1])
      [] a.tag = "Array" /\ b.tag = "Array" ->
            /\ a.ty = b.ty
            /\ Len(a.inner) = Len(b.inner)
            /\ \A j \in 1..Len(a.inner) : value_eq(a.inner[j], b.inner[j])
      [] OTHER -> FALSE

\* impl PartialEq for ValueRef
RECURSIVE value_ref_eq(_, _)
value_ref_eq(a, b) ==
    CASE a.tag \in EqArms /\ b.tag = a.tag -> payload_eq(a.tag, a.v, b.v)
      [] a.tag = "Nullable" /\ b.tag = "Nullable" ->
            /\ Len(a.inner) = Len(b.inner)
            /\ IF a.inner = <<>> THEN a.ty = b.ty
               ELSE value_ref_eq(a.inner[1], b.inner[1])
      [] a.tag = "Array" /\ b.tag = "Array" ->
            /\ a.ty = b.ty
            /\ Len(a.inner) = Len(b.inner)
            /\ \A j \in 1..Len(a.inner) :
                  value_ref_eq(a.inner[j], b.inner[j])
      [] OTHER -> FALSE

\* impl From<Value> for SqlType, impl From<ValueRef> for SqlType
RECURSIVE sql_type_from(_)
sql_type_from(x) ==
    CASE x.tag = "Nullable" ->
            IF x.inner = <<>> THEN Nested("Nullable", x.ty[1])
            ELSE Nested("Nullable", sql_type_from(x.inner[1]))
      [] x.tag = "Array" -> Nested("Array", x.ty[1])
      [] OTHER -> Simple(x.tag)

\* a column: its type and its cells
ColumnOf(t, cells) == [sql_type |-> t, cells |-> cells]

\* impl PartialEq<Column<R>> for Column<L>
column_eq(a, b) ==
    IF Len(a.cells) # Len(b.cells) THEN FALSE
    ELSE IF a.sql_type # b.sql_type THEN FALSE
    ELSE \A j \in 1..Len(a.cells) : value_ref_eq(a.cells[j], b.cells[j])

\* the values tried
ScalarValues == {Scalar(tag, v) : tag \in ScalarTags, v \in 0..1}
    \cup {Scalar("Float32", NaN), Scalar("Float64", NaN)}

Values ==
    ScalarValues
        \cup {Null(Simple("UInt8")), Null(Simple("Int256")),
              Some(Scalar("UInt8", 0)), Some(Scalar("UInt8", 1)),
              Some(Scalar("Int256", 0)), Some(Scalar("String", 1)),
              Array(Simple("UInt8"), <<>>), Array(Simple("Int256"), <<>>),
              Array(Simple("UInt8"), <<Scalar("UInt8", 0)>>),
              Array(Simple("UInt8"), <<Scalar("UInt8", 0), Scalar("UInt8", 1)>>),
              Array(Simple("Int256"), <<Scalar("Int256", 1)>>)}

\* x holds a NaN
RECURSIVE HasNaN(_)
HasNaN(x) ==
    \/ x.tag \in {"Float32", "Float64"} /\ x.v = NaN
    \/ \E j \in 1..Len(x.inner) : HasNaN(x.inner[j])

\* the inputs of the comparisons
EqInputs == [test : {"eq"}, a : Values, b : Values]

\* a == b on Value
ValueEq ==
    /\ fun = "value_eq"
    /\ output' = [kind |-> "eq", value |-> <<value_eq(input.a, input.b)>>]
    /\ fun' = "value_ref_eq"
    /\ UNCHANGED <<input, wire>>
    /\ UNCHANGED <<poolvars, svars>>

\* a == b on ValueRef
ValueRefEq ==
    /\ fun = "value_ref_eq"
    /\ output' = [output EXCEPT
                    !.value = Append(@, value_ref_eq(input.a, input.b))]
    /\ fun' = "column_eq"
    /\ UNCHANGED <<input, wire>>
    /\ UNCHANGED <<poolvars, svars>>

\* a == b on the columns of one cell
ColumnEq ==
    /\ fun = "column_eq"
    /\ output' = [output EXCEPT
                    !.value = Append(@,
                        column_eq(ColumnOf(sql_type_from(input.a), <<input.a>>),
                                  ColumnOf(sql_type_from(input.b), <<input.b>>)))]
    /\ fun' = "done"
    /\ UNCHANGED <<input, wire>>
    /\ UNCHANGED <<poolvars, svars>>

\* SqlType::to_string
RECURSIVE to_string(_)
to_string(t) ==
    CASE t.name = "FixedString" -> "FixedString(" \o ToString(t.size) \o ")"
      [] t.name \in {"Nullable", "Array"} ->
            t.name \o "(" \o to_string(t.nested[1]) \o ")"
      [] OTHER -> t.name

\* the Rust types that from_sql_impl! is invoked for, and the variant of
\* ValueRef that each takes
FromSqlTypes ==
    {"u8", "u16", "u32", "u64", "i8", "i16", "i32", "i64", "I256", "f32",
     "f64"}

variant_of(ty) ==
    CASE ty = "u8" -> "UInt8"
      [] ty = "u16" -> "UInt16"
      [] ty = "u32" -> "UInt32"
      [] ty = "u64" -> "UInt64"
      [] ty = "i8" -> "Int8"
      [] ty = "i16" -> "Int16"
      [] ty = "i32" -> "Int32"
      [] ty = "i64" -> "Int64"
      [] ty = "I256" -> "Int256"
      [] ty = "f32" -> "Float32"
      [] ty = "f64" -> "Float64"

\* Result<T> of from_sql
SqlOk(v) == [kind |-> "Ok", value |-> v, src |-> "", dst |-> ""]
InvalidType(src, dst) ==
    [kind |-> "InvalidType", value |-> 0, src |-> src, dst |-> dst]

\* mutant: an unsigned integer is also taken from a narrower one
from_sql_widening(ty, value) ==
    IF \/ value.tag = variant_of(ty)
       \/ ty = "u32" /\ value.tag \in {"UInt8", "UInt16"}
    THEN SqlOk(value.v)
    ELSE InvalidType(to_string(sql_type_from(value)), ty)

\* <T as FromSql>::from_sql(value), T one of FromSqlTypes
from_sql(ty, value) ==
    IF value.tag = variant_of(ty) THEN SqlOk(value.v)
    ELSE InvalidType(to_string(sql_type_from(value)), ty)

\* the inputs of the extractions: the cell of a block and the type asked
FromSqlInputs == [test : {"from_sql"}, ty : FromSqlTypes, v : Values]

\* T::from_sql(cell); the cells are in wire
FromSql ==
    /\ fun = "from_sql"
    /\ output' = from_sql(input.ty, wire[1])
    /\ fun' = "done"
    /\ UNCHANGED <<input, wire>>
    /\ UNCHANGED <<poolvars, svars>>

(* ---------------------------- column: types ----------------------------- *)
\* A type name on the wire is the sequence of its bytes.

\* the bytes of the words that SqlType::to_string is made of
Ascii(text) ==
    CASE text = "UInt8" -> <<85, 73, 110, 116, 56>>
      [] text = "UInt16" -> <<85, 73, 110, 116, 49, 54>>
      [] text = "UInt32" -> <<85, 73, 110, 116, 51, 50>>
      [] text = "UInt64" -> <<85, 73, 110, 116, 54, 52>>
      [] text = "Int8" -> <<73, 110, 116, 56>>
      [] text = "Int16" -> <<73, 110, 116, 49, 54>>
      [] text = "Int32" -> <<73, 110, 116, 51, 50>>
      [] text = "Int64" -> <<73, 110, 116, 54, 52>>
      [] text = "Int256" -> <<73, 110, 116, 50, 53, 54>>
      [] text = "String" -> <<83, 116, 114, 105, 110, 103>>
      [] text = "Float32" -> <<70, 108, 111, 97, 116, 51, 50>>
      [] text = "Float64" -> <<70, 108, 111, 97, 116, 54, 52>>
      [] text = "FixedString" -> <<70, 105, 120, 101, 100, 83, 116, 114, 105, 110, 103>>
      [] text = "Nullable" -> <<78, 117, 108, 108, 97, 98, 108, 101>>
      [] text = "Array" -> <<65, 114, 114, 97, 121>>

\* the decimal digits of n, as bytes
RECURSIVE digits(_)
digits(n) ==
    IF n < 10 THEN <<48 + n>> ELSE Append(digits(n \div 10), 48 + (n % 10))

\* SqlType::to_string, as the bytes that encoder.string is given
RECURSIVE type_name(_)
type_name(t) ==
    CASE t.name = "FixedString" ->
            Ascii("FixedString") \o <<40>> \o digits(t.size) \o <<41>>
      [] t.name \in {"Nullable", "Array"} ->
            Ascii(t.name) \o <<40>> \o type_name(t.nested[1]) \o <<41>>
      [] OTHER -> Ascii(t.name)

\* the spellings that load_data matches, each with the type of the column
\* data that it loads
Spellings ==
    {[text |-> <<85, 73, 110, 116, 56>>, name |-> "UInt8"],
     [text |-> <<85, 73, 110, 116, 49, 54>>, name |-> "UInt16"],
     [text |-> <<85, 73, 110, 116, 51, 50>>, name |-> "UInt32"],
     [text |-> <<85, 73, 110, 116, 54, 52>>, name |-> "UInt64"],
     [text |-> <<73, 110, 116, 56>>, name |-> "Int8"],
     [text |-> <<84, 105, 110, 121, 73, 110, 116>>, name |-> "Int8"],
     [text |-> <<73, 110, 116, 49, 54>>, name |-> "Int16"],
     [text |-> <<83, 109, 97, 108, 108, 73, 110, 116>>, name |-> "Int16"],
     [text |-> <<73, 110, 116, 51, 50>>, name |-> "Int32"],
     [text |-> <<73, 110, 116>>, name |-> "Int32"],
     [text |-> <<73, 110, 116, 101, 103, 101, 114>>, name |-> "Int32"],
     [text |-> <<73, 110, 116, 54, 52>>, name |-> "Int64"],
     [text |-> <<66, 105, 103, 73, 110, 116>>, name |-> "Int64"],
     [text |-> <<70, 108, 111, 97, 116, 51, 50>>, name |-> "Float32"],
     [text |-> <<70, 108, 111, 97, 116>>, name |-> "Float32"],
     [text |-> <<70, 108, 111, 97, 116, 54, 52>>, name |-> "Float64"],
     [text |-> <<68, 111, 117, 98, 108, 101>>, name |-> "Float64"],
     [text |-> <<73, 110, 116, 50, 53, 54>>, name |-> "Int256"],
     [text |-> <<83, 116, 114, 105, 110, 103>>, name |-> "String"],
     [text |-> <<67, 104, 97, 114>>, name |-> "String"],
     [text |-> <<86, 97, 114, 99, 104, 97, 114>>, name |-> "String"],
     [text |-> <<84, 101, 120, 116>>, name |-> "String"],
     [text |-> <<84, 105, 110, 121, 84, 101, 120, 116>>, name |-> "String"],
     [text |-> <<77, 101, 100, 105, 117, 109, 84, 101, 120, 116>>, name |-> "String"],
     [text |-> <<76, 111, 110, 103, 84, 101, 120, 116>>, name |-> "String"],
     [text |-> <<66, 108, 111, 98>>, name |-> "String"],
     [text |-> <<84, 105, 110, 121, 66, 108, 111, 98>>, name |-> "String"],
     [text |-> <<77, 101, 100, 105, 117, 109, 66, 108, 111, 98>>, name |-> "String"],
     [text |-> <<76, 111, 110, 103, 66, 108, 111, 98>>, name |-> "String"]}

\* eq_ignore_ascii_case(a, b)
to_ascii_lowercase(text) ==
    [j \in 1..Len(text) |->
        IF text[j] >= 65 /\ text[j] <= 90 THEN text[j] + 32 ELSE text[j]]

eq_ignore_ascii_case(a, b) == to_ascii_lowercase(a) = to_ascii_lowercase(b)

\* source.starts_with(word)
starts_with(source, word) ==
    Len(source) >= Len(word) /\ SubSeq(source, 1, Len(word)) = word

\* Option<T>; a panic is a third outcome
None == [kind |-> "None", value |-> <<>>]
Panicked == [kind |-> "panic", value |-> <<>>]
SomeOf(x) == [kind |-> "Some", value |-> x]

\* &source[from..source.len() - 1]: slicing panics when from is beyond its
\* end
inner_of(source, from) ==
    IF from > Len(source) - 1 THEN Panicked
    ELSE SomeOf(SubSeq(source, from + 1, Len(source) - 1))

\* parse_nullable_type(source)
parse_nullable_type(source) ==
    IF ~starts_with(source, Ascii("Nullable")) THEN None
    ELSE LET inner_type == inner_of(source, 9) IN
         IF inner_type.kind = "panic" THEN Panicked
         ELSE IF starts_with(inner_type.value, Ascii("Nullable")) THEN None
         ELSE inner_type

\* parse_array_type(source)
parse_array_type(source) ==
    IF ~starts_with(source, Ascii("Array")) THEN None
    ELSE inner_of(source, 6)

\* the number that the decimal digits text are, text not empty
RECURSIVE number_of(_)
number_of(text) ==
    IF Len(text) = 1 THEN text[1] - 48
    ELSE 10 * number_of(SubSeq(text, 1, Len(text) - 1)) + text[Len(text)] - 48

\* text.parse::<usize>(), for the numbers that fit: decimal digits, after
\* a plus sign or not
parse_usize(text) ==
    LET ds == IF text # <<>> /\ text[1] = 43 THEN Tail(text) ELSE text IN
    IF ds = <<>> \/ \E k \in 1..Len(ds) : ds[k] < 48 \/ ds[k] > 57
    THEN None
    ELSE SomeOf(number_of(ds))

\* parse_fixed_string(source)
parse_fixed_string(source) ==
    IF ~starts_with(source, Ascii("FixedString")) THEN None
    ELSE LET inner_size == inner_of(source, 12) IN
         IF inner_size.kind = "panic" THEN Panicked
         ELSE parse_usize(inner_size.value)

(* ---------------------------- column: data ------------------------------ *)
\* Column data on the wire.  The layout of each kind of column is the one
\* of the design document; the dispatch on the type name is load_data.

\* size_of::<T>() of the element type of a numeric column
element_size(name) ==
    CASE name \in {"UInt8", "Int8"} -> 1
      [] name \in {"UInt16", "Int16"} -> 2
      [] name \in {"UInt32", "Int32", "Float32"} -> 4
      [] name \in {"UInt64", "Int64", "Float64"} -> 8
      [] name = "Int256" -> 32

\* the bytes of the string that the payload v stands for, and back;
\* UnknownText is the payload of every other string
UnknownText == 99
text_of(v) == IF v = 0 THEN <<>> ELSE [j \in 1..v |-> 64 + j]
payload_of(text) == IF text = text_of(Len(text)) THEN Len(text) ELSE UnknownText

\* let name = value; body: the value is computed once and named in the body
let(value, body(_)) == body(value)

\* the concatenation of the sequences in seqs
RECURSIVE Flatten(_)
Flatten(seqs) == IF seqs = <<>> THEN <<>> ELSE Head(seqs) \o Flatten(Tail(seqs))

\* the running sums of the lengths of the arrays in cells
RECURSIVE offsets_of(_, _)
offsets_of(cells, acc) ==
    IF cells = <<>> THEN <<>>
    ELSE <<acc + Len(Head(cells).inner)>>
            \o offsets_of(Tail(cells), acc + Len(Head(cells).inner))

\* Value::default(sql_type) for the types that are inner types here
default_value(t) == Scalar(t.name, 0)

\* ColumnData::save(encoder, 0, len) of a column of type t
RECURSIVE save(_, _)
save(t, cells) ==
    CASE t.name = "String" ->
            Flatten([j \in 1..Len(cells) |-> put_string(text_of(cells[j].v))])
      [] t.name = "FixedString" ->
            Flatten([j \in 1..Len(cells) |->
                [k \in 1..t.size |->
                    IF k <= cells[j].v THEN text_of(cells[j].v)[k] ELSE 0]])
      [] t.name = "Nullable" ->
            [j \in 1..Len(cells) |-> IF cells[j].inner = <<>> THEN 1 ELSE 0]
                \o save(t.nested[1],
                        [j \in 1..Len(cells) |->
                            IF cells[j].inner = <<>>
                            THEN default_value(t.nested[1])
                            ELSE cells[j].inner[1]])
      [] t.name = "Array" ->
            Flatten([j \in 1..Len(cells) |->
                        to_le_bytes(from_usize(offsets_of(cells, 0)[j]), 8)])
                \o save(t.nested[1],
                        Flatten([j \in 1..Len(cells) |-> cells[j].inner]))
      [] OTHER ->
            Flatten([j \in 1..Len(cells) |->
                        to_le_bytes(from_usize(cells[j].v),
                                    element_size(t.name))])

\* the result of a load: the type and the cells of the column data
Loaded(t, cells, rest) ==
    [kind |-> "Ok", value |-> [sql_type |-> t, cells |-> cells], rest |-> rest]
LoadErr(kind) ==
    [kind |-> kind, value |-> [sql_type |-> Simple(""), cells |-> <<>>],
     rest |-> <<>>]

\* VectorColumnData::<T>::load(reader, size): size elements of T
load_vector(reader, name, size) ==
    LET w == element_size(name)
        r == read_bytes(reader, size * w)
    IN IF r.kind # "Ok" THEN LoadErr(r.kind)
       ELSE Loaded(Simple(name),
                   [j \in 1..size |->
                       Scalar(name,
                              as_usize(from_le_bytes(
                                  SubSeq(r.value, (j - 1) * w + 1, j * w))))],
                   r.rest)

\* StringColumnData::load(reader, size): size times read_str_into_buffer
RECURSIVE load_strings(_, _, _, _)
load_strings(reader, size, cells, overflow_checks) ==
    IF size = 0 THEN Loaded(Simple("String"), cells, reader)
    ELSE let(read_uvarint(reader, overflow_checks), LAMBDA l :
         IF l.kind # "Ok" THEN LoadErr(l.kind)
         ELSE let(read_bytes(l.rest, as_usize(l.value)), LAMBDA r :
              IF r.kind # "Ok" THEN LoadErr(r.kind)
              ELSE load_strings(r.rest, size - 1,
                                Append(cells,
                                       Scalar("String", payload_of(r.value))),
                                overflow_checks)))

\* FixedStringColumnData::load(reader, size, str_len)
load_fixed(reader, size, str_len) ==
    LET r == read_bytes(reader, size * str_len) IN
    IF r.kind # "Ok" THEN LoadErr(r.kind)
    ELSE Loaded([name |-> "FixedString", size |-> str_len, nested |-> <<>>],
                [j \in 1..size |->
                    Scalar("String",
                           payload_of(SubSeq(r.value, (j - 1) * str_len + 1,
                                             j * str_len)))],
                r.rest)

\* the elements of the arrays of a column: cell j has the elements from
\* offsets[j - 1] to offsets[j] of the inner column
array_cells(t, offsets, inner) ==
    [j \in 1..Len(offsets) |->
        Array(t, SubSeq(inner, (IF j = 1 THEN 0 ELSE offsets[j - 1]) + 1,
                        offsets[j]))]

\* <dyn ColumnData>::load_data(reader, type_name, size, tz), with
\* NullableColumnData::load and ArrayColumnData::load
RECURSIVE load_data(_, _, _, _)
load_data(reader, name, size, overflow_checks) ==
    IF \E sp \in Spellings : eq_ignore_ascii_case(name, sp.text)
    THEN LET sp == CHOOSE x \in Spellings : eq_ignore_ascii_case(name, x.text)
         IN IF sp.name = "String"
            THEN load_strings(reader, size, <<>>, overflow_checks)
            ELSE load_vector(reader, sp.name, size)
    ELSE LET nullable == parse_nullable_type(name)
             fixed == parse_fixed_string(name)
             array == parse_array_type(name)
         IN
         IF nullable.kind = "panic" THEN LoadErr("panic")
         ELSE IF nullable.kind = "Some"
         THEN let(read_bytes(reader, size), LAMBDA flags :
              IF flags.kind # "Ok" THEN LoadErr(flags.kind)
              ELSE let(load_data(flags.rest, nullable.value, size,
                                 overflow_checks), LAMBDA in :
                   IF in.kind # "Ok" THEN in
                   ELSE Loaded(Nested("Nullable", in.value.sql_type),
                               [j \in 1..size |->
                                   IF flags.value[j] # 0
                                   THEN Null(in.value.sql_type)
                                   ELSE Some(in.value.cells[j])],
                               in.rest)))
         ELSE IF fixed.kind = "panic" THEN LoadErr("panic")
         ELSE IF fixed.kind = "Some"
         THEN load_fixed(reader, size, fixed.value)
         ELSE IF array.kind = "panic" THEN LoadErr("panic")
         ELSE IF array.kind = "Some"
         THEN let(read_bytes(reader, size * 8), LAMBDA r :
              IF r.kind # "Ok" THEN LoadErr(r.kind)
              ELSE let([j \in 1..size |->
                           as_usize(from_le_bytes(
                               SubSeq(r.value, (j - 1) * 8 + 1, j * 8)))],
                       LAMBDA offsets :
                   let(load_data(r.rest, array.value,
                                 IF size = 0 THEN 0 ELSE offsets[size],
                                 overflow_checks), LAMBDA in :
                   IF in.kind # "Ok" THEN in
                   ELSE Loaded(Nested("Array", in.value.sql_type),
                               array_cells(in.value.sql_type, offsets,
                                           in.value.cells),
                               in.rest))))
         ELSE LoadErr("UnsupportedColumnType")

(* --------------------------- block: builder ----------------------------- *)
\* A block being built is the sequence of its columns, each with its name
\* and its number of rows; the cells all have one type.

\* Block::row_count
row_count(columns) == IF columns = <<>> THEN 0 ELSE columns[1].len

\* get_index taking the last column of the name
get_index_last(key, columns) ==
    IF \E j \in 1..Len(columns) : columns[j].name = key
    THEN CHOOSE j \in 1..Len(columns) :
            /\ columns[j].name = key
            /\ \A i \in (j + 1)..Len(columns) : columns[i].name # key
    ELSE 0

\* <&str as ColumnIdx>::get_index: the first column of the name, counted
\* from 1, or 0 for OutOfRange
get_index(key, columns) ==
    IF \E j \in 1..Len(columns) : columns[j].name = key
    THEN CHOOSE j \in 1..Len(columns) :
            /\ columns[j].name = key
            /\ \A i \in 1..(j - 1) : columns[i].name # key
    ELSE 0

\* put_param(key, value, block): the columns afterwards, and the result
put_param(key, columns) ==
    LET col_index == get_index(key, columns) IN
    IF col_index # 0
    THEN [columns |-> [columns EXCEPT ![col_index].len = @ + 1],
          kind |-> "Ok"]
    ELSE IF row_count(columns) <= 1
    THEN LET created == Append(columns, [name |-> key, len |-> 0])
             again == get_index(key, created)
         IN [columns |-> [created EXCEPT ![again].len = @ + 1], kind |-> "Ok"]
    ELSE [columns |-> columns, kind |-> "OutOfRange"]

\* <Vec<(String, Value)> as RowBuilder>::apply: put_param key by key, left
\* at the first error
RECURSIVE apply(_, _)
apply(row, columns) ==
    IF row = <<>> THEN [columns |-> columns, kind |-> "Ok"]
    ELSE LET r == put_param(Head(row), columns) IN
         IF r.kind # "Ok" THEN r ELSE apply(Tail(row), r.columns)

\* the column names, and the rows pushed: the keys of a row in its order
Names == {"a", "b"}
RowKeys == UNION {[1..n -> Names] : n \in 0..2}

\* the input of the building of a block
BlockInputs == {[test |-> "block"]}

\* block.column(name, values) and add_column, values of n rows:
\* append_column panics when the block has columns of another length, and
\* the block, taken by value, is gone
BlockColumn ==
    /\ fun = "block"
    /\ Len(wire) < MaxColumns
    /\ \E name \in Names, n \in 0..MaxRows :
          IF wire # <<>> /\ row_count(wire) # n
          THEN /\ output' = [kind |-> "panic"]
               /\ fun' = "done"
               /\ wire' = <<>>
          ELSE /\ output' = [kind |-> "Ok"]
               /\ fun' = fun
               /\ wire' = Append(wire, [name |-> name, len |-> n])
    /\ UNCHANGED input
    /\ UNCHANGED <<poolvars, svars>>

\* block.push(row)
BlockPush ==
    /\ fun = "block"
    /\ Len(wire) < MaxColumns
    /\ \A j \in 1..Len(wire) : wire[j].len < MaxRows
    /\ \E row \in RowKeys :
          LET r == apply(row, wire) IN
          /\ wire' = r.columns
          /\ output' = [kind |-> r.kind]
    /\ UNCHANGED <<input, fun>>
    /\ UNCHANGED <<poolvars, svars>>

(* ----------------------------- block: codec ----------------------------- *)
\* BlockInfo, as the design document lays it out: the records
\* (1, is_overflows), (2, bucket_num) and the field number 0 at the end
DefaultInfo == [is_overflows |-> {}, bucket_num |-> 0..31]

info_write(binfo) ==
    put_uvarint({0}) \o marshal("bool", binfo.is_overflows, buffer("bool"))
        \o put_uvarint({1}) \o marshal("i32", binfo.bucket_num, buffer("i32"))
        \o put_uvarint({})

RECURSIVE info_read(_, _, _)
info_read(reader, binfo, overflow_checks) ==
    let(read_uvarint(reader, overflow_checks), LAMBDA f :
    IF f.kind # "Ok" THEN [kind |-> f.kind, value |-> binfo, rest |-> <<>>]
    ELSE IF f.value = {} THEN [kind |-> "Ok", value |-> binfo, rest |-> f.rest]
    ELSE IF f.value = {0}
    THEN let(read_scalar(f.rest, "bool"), LAMBDA r :
         IF r.kind # "Ok" THEN [kind |-> r.kind, value |-> binfo, rest |-> <<>>]
         ELSE info_read(r.rest, [binfo EXCEPT !.is_overflows = r.value],
                        overflow_checks))
    ELSE IF f.value = {1}
    THEN let(read_scalar(f.rest, "i32"), LAMBDA r :
         IF r.kind # "Ok" THEN [kind |-> r.kind, value |-> binfo, rest |-> <<>>]
         ELSE info_read(r.rest, [binfo EXCEPT !.bucket_num = r.value],
                        overflow_checks))
    ELSE [kind |-> "UnknownField", value |-> binfo, rest |-> <<>>])

\* a block with its cells: the info and the columns, each with its name,
\* its type and its cells
BlockOf(columns) == [info |-> DefaultInfo, columns |-> columns]

\* Block::row_count on columns with cells
row_count_of(columns) == IF columns = <<>> THEN 0 ELSE Len(columns[1].cells)

\* Column::write
column_write(column) ==
    put_string(column.name) \o put_string(type_name(column.sql_type))
        \o save(column.sql_type, column.cells)

\* Block::write
block_write(block) ==
    info_write(block.info)
        \o put_uvarint(from_usize(Len(block.columns)))
        \o put_uvarint(from_usize(row_count_of(block.columns)))
        \o Flatten([j \in 1..Len(block.columns) |->
                        column_write(block.columns[j])])

\* the result of Block::raw_load
BlockErr(kind) == [kind |-> kind, value |-> BlockOf(<<>>), rest |-> <<>>]

\* Column::read
column_read(reader, size, overflow_checks) ==
    let(read_string(reader, overflow_checks), LAMBDA name :
    IF name.kind # "Ok" THEN LoadErr(name.kind)
    ELSE let(read_string(name.rest, overflow_checks), LAMBDA type :
         IF type.kind # "Ok" THEN LoadErr(type.kind)
         ELSE let(load_data(type.rest, type.value, size, overflow_checks),
                  LAMBDA data :
              IF data.kind # "Ok" THEN data
              ELSE [kind |-> "Ok",
                    value |-> [name |-> name.value,
                               sql_type |-> data.value.sql_type,
                               cells |-> data.value.cells],
                    rest |-> data.rest])))

\* Block::raw_load, the loop for _ in 0..num_columns with append_column
RECURSIVE read_columns(_, _, _, _, _)
read_columns(reader, block, num_columns, num_rows, overflow_checks) ==
    IF num_columns = 0
    THEN [kind |-> "Ok", value |-> block, rest |-> reader]
    ELSE let(column_read(reader, num_rows, overflow_checks), LAMBDA c :
         IF c.kind # "Ok" THEN BlockErr(c.kind)
         ELSE IF /\ block.columns # <<>>
                 /\ row_count_of(block.columns) # Len(c.value.cells)
         THEN BlockErr("panic")
         ELSE read_columns(c.rest,
                           [block EXCEPT !.columns = Append(@, c.value)],
                           num_columns - 1, num_rows, overflow_checks))

\* Block::raw_load
raw_load(reader, overflow_checks) ==
    let(info_read(reader, DefaultInfo, overflow_checks), LAMBDA i :
    IF i.kind # "Ok" THEN BlockErr(i.kind)
    ELSE let(read_uvarint(i.rest, overflow_checks), LAMBDA num_columns :
         IF num_columns.kind # "Ok" THEN BlockErr(num_columns.kind)
         ELSE let(read_uvarint(num_columns.rest, overflow_checks),
                  LAMBDA num_rows :
              IF num_rows.kind # "Ok" THEN BlockErr(num_rows.kind)
              ELSE read_columns(num_rows.rest,
                                [info |-> i.value, columns |-> <<>>],
                                as_usize(num_columns.value),
                                as_usize(num_rows.value), overflow_checks))))

\* impl PartialEq<Block<R>> for Block<L>
block_eq(a, b) ==
    IF Len(a.columns) # Len(b.columns) THEN FALSE
    ELSE \A j \in 1..Len(a.columns) : column_eq(a.columns[j], b.columns[j])

\* the types of the columns tried
CodecTypes ==
    {Simple(name) : name \in ScalarTags}
        \cup {Nested("Nullable", Simple("UInt8")),
              Nested("Nullable", Simple("String")),
              Nested("Array", Simple("UInt16")),
              Nested("Array", Simple("String"))}

\* the cells of a column of type t that are tried
RECURSIVE CellsOf(_)
CellsOf(t) ==
    CASE t.name = "Nullable" ->
            {Null(t.nested[1])} \cup {Some(x) : x \in CellsOf(t.nested[1])}
      [] t.name = "Array" ->
            {Array(t.nested[1], xs) :
                xs \in UNION {[1..n -> CellsOf(t.nested[1])] : n \in 0..2}}
      [] OTHER -> {Scalar(t.name, v) : v \in 0..1}

\* the columns of n rows: any of the types under the first name, and a
\* String or UInt8 column under the second
ColumnsOf(n, name, types) ==
    UNION {[name : {name}, sql_type : {t}, cells : [1..n -> CellsOf(t)]] :
              t \in types}

FirstColumns(n) == ColumnsOf(n, <<97>>, CodecTypes)
SecondColumns(n) == ColumnsOf(n, <<98, 99>>, {Simple("String"), Simple("UInt8")})

\* the blocks written and read back
CodecBlocks ==
    {BlockOf(<<>>)}
        \cup UNION {{BlockOf(<<c>>) : c \in FirstColumns(n)} : n \in 0..MaxCodecRows}
        \cup UNION {{BlockOf(<<c, d>>) :
                        c \in FirstColumns(n), d \in SecondColumns(n)} :
                    n \in 0..MaxCodecRows}

CodecInputs ==
    [test : {"codec"}, block : CodecBlocks, overflow_checks : BOOLEAN]

\* block.write(encoder)
BlockWrite ==
    /\ fun = "write"
    /\ wire' = block_write(input.block)
    /\ fun' = "raw_load"
    /\ UNCHANGED <<input, output>>
    /\ UNCHANGED <<poolvars, svars>>

\* Block::load(reader, tz)
BlockLoad ==
    /\ fun = "raw_load"
    /\ output' = raw_load(wire, input.overflow_checks)
    /\ fun' = "block_eq"
    /\ UNCHANGED <<input, wire>>
    /\ UNCHANGED <<poolvars, svars>>

\* loaded == block, for a block that was loaded
BlockEq ==
    /\ fun = "block_eq"
    /\ output' = [kind |-> output.kind, value |-> output.value,
                  rest |-> output.rest,
                  eq |-> /\ output.kind = "Ok"
                         /\ block_eq(output.value, input.block)]
    /\ fun' = "done"
    /\ UNCHANGED <<input, wire>>
    /\ UNCHANGED <<poolvars, svars>>

(* ----------------------------- block: access ---------------------------- *)
\* Block::get_column(col) with a column name: the column found, counted
\* from 1; Block::get and Row::get resolve col with the same get_index
get_column(key, columns) ==
    LET column_index == get_index(key, columns) IN
    IF column_index = 0 THEN [kind |-> "OutOfRange", value |-> 0]
    ELSE [kind |-> "Ok", value |-> column_index]

\* the column names and keys tried, and the blocks: their columns by name
GetNames == {"a", "A", "ab"}
GetKeys == GetNames \cup {"b"}
GetInputs ==
    [test : {"get"}, key : GetKeys,
     columns : UNION {[1..n -> [name : GetNames, len : {1}]] :
                          n \in 0..MaxColumns}]

\* block.get_column(key)
GetColumn ==
    /\ fun = "get_column"
    /\ output' = get_column(input.key, input.columns)
    /\ fun' = "done"
    /\ UNCHANGED <<input, wire>>
    /\ UNCHANGED <<poolvars, svars>>

(* --------------------------- column: type names ------------------------- *)
\* word(inner), as bytes
Wrapped(word, inner) == Ascii(word) \o <<40>> \o inner \o <<41>>

\* the type names tried: spellings that load, and others
TypeNames ==
    {Ascii("UInt8"), Ascii("String"), <<105, 110, 116>>,
     Wrapped("Nullable", Ascii("UInt8")),
     Wrapped("Array", Ascii("UInt8")),
     Wrapped("Array", Wrapped("Nullable", Ascii("String"))),
     Wrapped("FixedString", <<50>>),
     Wrapped("FixedString", <<49, 48>>),
     Wrapped("Nullable", Wrapped("Nullable", Ascii("Int8"))),
     Wrapped("FixedString", <<122, 122>>),
     Wrapped("FixedString", <<>>),
     Wrapped("FixedString", <<48>>),
     Wrapped("FixedString", <<45, 49>>),
     <<70, 111, 111>>, <<>>, <<85, 73, 110, 116>>,
     to_ascii_lowercase(Wrapped("Nullable", Ascii("UInt8"))),
     Ascii("Array"), Ascii("Nullable"), Ascii("FixedString"),
     Ascii("Array") \o <<40>>, Ascii("Nullable") \o <<40>>,
     Ascii("FixedString") \o <<40>>,
     Ascii("Array") \o <<40, 41>>, Ascii("Nullable") \o <<40, 41>>}

\* the column bodies tried: nothing, or zero bytes enough for every column
\* of the types above
LoadInputs ==
    [test : {"load"}, name : TypeNames, size : 0..MaxCodecRows,
     bytes : {<<>>, [j \in 1..LongString |-> 0]}, overflow_checks : BOOLEAN]

\* <dyn ColumnData>::load_data(reader, type_name, size, tz)
LoadData ==
    /\ fun = "load_data"
    /\ output' = load_data(wire, input.name, input.size, input.overflow_checks)
    /\ fun' = "done"
    /\ UNCHANGED <<input, wire>>
    /\ UNCHANGED <<poolvars, svars>>

(* ----------------------------- block: chunks ---------------------------- *)
\* cmp::min
min(a, b) == IF a < b THEN a ELSE b

\* ChunkColumnData over the rows from..to of a column, rows counted from
\* 0: to - from cells, cell i being cell from + i of the column
chunk_data(cells, from, to) == [i \in 1..(to - from) |-> cells[from + i]]

\* column.slice(from..to), under the name of the column
slice(column, from, to) ==
    [name |-> column.name, sql_type |-> column.sql_type,
     cells |-> chunk_data(column.cells, from, to)]

\* ChunkIterator::new(size, block)
ChunkIterator(size, block) == [position |-> 0, size |-> size, block |-> block]

\* ChunkIterator::next reading every column from row 0
chunk_next_from_start(it) ==
    LET m == row_count_of(it.block.columns) IN
    IF m = 0 /\ it.position = 0
    THEN [item |-> SomeOf(BlockOf(<<>>)), it |-> [it EXCEPT !.position = @ + 1]]
    ELSE IF it.position >= m THEN [item |-> None, it |-> it]
    ELSE LET size == min(it.size, m - it.position) IN
         [item |-> SomeOf(BlockOf([j \in 1..Len(it.block.columns) |->
                              slice(it.block.columns[j], 0, size)])),
          it |-> [it EXCEPT !.position = @ + size]]

\* ChunkIterator::next: the item, and the iterator afterwards
chunk_next(it) ==
    LET m == row_count_of(it.block.columns) IN
    IF m = 0 /\ it.position = 0
    THEN [item |-> SomeOf(BlockOf(<<>>)), it |-> [it EXCEPT !.position = @ + 1]]
    ELSE IF it.position >= m THEN [item |-> None, it |-> it]
    ELSE LET size == min(it.size, m - it.position) IN
         [item |-> SomeOf(BlockOf([j \in 1..Len(it.block.columns) |->
                              slice(it.block.columns[j], it.position,
                                    it.position + size)])),
          it |-> [it EXCEPT !.position = @ + size]]

\* the blocks split: c columns of UInt8 with m rows, the cell of row r
\* being r
ChunkBlock(c, m) ==
    BlockOf([j \in 1..c |->
        [name |-> <<96 + j>>, sql_type |-> Simple("UInt8"),
         cells |-> [r \in 1..m |-> Scalar("UInt8", r)]]])

\* a block has rows only when it has columns
ChunkInputs ==
    {[test |-> "chunks", block |-> ChunkBlock(c, m), n |-> n] :
        c \in 0..(MaxColumns - 1), m \in 0..MaxRows, n \in 1..(MaxRows + 1)}
    \ {[test |-> "chunks", block |-> ChunkBlock(0, m), n |-> n] :
        m \in 1..MaxRows, n \in 1..(MaxRows + 1)}

\* block.chunks(n)
Chunks ==
    /\ fun = "chunks"
    /\ wire' = <<ChunkIterator(input.n, input.block)>>
    /\ output' = [kind |-> "Ok", value |-> <<>>]
    /\ fun' = "next"
    /\ UNCHANGED input
    /\ UNCHANGED <<poolvars, svars>>

\* one iterator.next(): the block yielded is added to the ones before; None
\* ends the for loop
ChunkNext ==
    /\ fun = "next"
    /\ LET r == chunk_next(wire[1]) IN
       /\ wire' = <<r.it>>
       /\ IF r.item.kind = "Some"
          THEN /\ output' = [output EXCEPT !.value = Append(@, r.item.value)]
               /\ fun' = fun
          ELSE /\ output' = output
               /\ fun' = "done"
    /\ UNCHANGED input
    /\ UNCHANGED <<poolvars, svars>>

(* ---------------------------- types: command ---------------------------- *)
CLIENT_QUERY == 1
CLIENT_DATA == 2
COMPRESS_DISABLE == 0
STATE_COMPLETE == 2
READONLY_LEVEL == 1
DBMS_MIN_REVISION_WITH_QUOTA_KEY_IN_CLIENT_INFO == 54060
CLICK_HOUSE_DBMSVERSION_MAJOR == 1
CLICK_HOUSE_DBMSVERSION_MINOR == 1
INSERT_BLOCK_SIZE == 1048576

\* "readonly", "RustCHDriver" and "[::ffff:127.0.0.1]:0", as bytes
READONLY_FLAG == <<114, 101, 97, 100, 111, 110, 108, 121>>
CLIENT_NAME == <<82, 117, 115, 116, 67, 72, 68, 114, 105, 118, 101, 114>>
InitialAddress ==
    <<91, 58, 58, 102, 102, 102, 102, 58, 49, 50, 55, 46, 48, 46, 48, 46, 49,
      93, 58, 48>>

\* encoder.uvarint(n)
uvarint(n) == put_uvarint(from_usize(n))

\* client_info::write
client_info_write ==
    put_string(CLIENT_NAME) \o uvarint(CLICK_HOUSE_DBMSVERSION_MAJOR)
        \o uvarint(CLICK_HOUSE_DBMSVERSION_MINOR)
        \o uvarint(CLICK_HOUSE_REVISION)

\* for chunk in iterator: the blocks that the iterator yields
RECURSIVE collect(_)
collect(it) ==
    let(chunk_next(it), LAMBDA r :
        IF r.item.kind = "None" THEN <<>>
        ELSE <<r.item.value>> \o collect(r.it))

\* Block::send_data
send_data(block) ==
    uvarint(CLIENT_DATA) \o put_string(<<>>)
        \o let(collect(ChunkIterator(INSERT_BLOCK_SIZE, block)), LAMBDA cs :
               Flatten([k \in 1..Len(cs) |-> block_write(cs[k])]))

\* encode_query with the quota key written for every revision
encode_query_always_quota(query, context) ==
    uvarint(CLIENT_QUERY) \o put_string(<<>>)
        \o uvarint(1) \o put_string(<<>>) \o put_string(query.id)
        \o put_string(InitialAddress) \o uvarint(1)
        \o put_string(context.hostname) \o put_string(context.hostname)
        \o client_info_write
        \o put_string(<<>>)
        \o put_string(READONLY_FLAG) \o uvarint(READONLY_LEVEL)
        \o put_string(<<>>)
        \o uvarint(STATE_COMPLETE)
        \o uvarint(COMPRESS_DISABLE)
        \o put_string(query.sql)
        \o send_data(BlockOf(<<>>))

\* encode_query(query, context)
encode_query(query, context) ==
    uvarint(CLIENT_QUERY) \o put_string(<<>>)
        \o uvarint(1) \o put_string(<<>>) \o put_string(query.id)
        \o put_string(InitialAddress) \o uvarint(1)
        \o put_string(context.hostname) \o put_string(context.hostname)
        \o client_info_write
        \o (IF context.server_info.revision
                  >= DBMS_MIN_REVISION_WITH_QUOTA_KEY_IN_CLIENT_INFO
            THEN put_string(<<>>) ELSE <<>>)
        \o put_string(READONLY_FLAG) \o uvarint(READONLY_LEVEL)
        \o put_string(<<>>)
        \o uvarint(STATE_COMPLETE)
        \o uvarint(COMPRESS_DISABLE)
        \o put_string(query.sql)
        \o send_data(BlockOf(<<>>))

\* the queries encoded: sql of 0, 1 and LongString bytes, with or without
\* an id, for servers of revisions around the one of the quota key
QueryInputs ==
    [test : {"query"},
     query : [sql : {<<>>, <<83>>, [j \in 1..LongString |-> 83]},
              id : {<<>>, <<105, 100>>}],
     context : [hostname : {<<104>>, <<104, 50>>},
                server_info :
                    [revision :
                        {0, DBMS_MIN_REVISION_WITH_QUOTA_KEY_IN_CLIENT_INFO - 1,
                         DBMS_MIN_REVISION_WITH_QUOTA_KEY_IN_CLIENT_INFO,
                         CLICK_HOUSE_REVISION}]]]

\* Cmd::SendQuery(query, context).get_packed_command()
EncodeQuery ==
    /\ fun = "encode_query"
    /\ wire' = encode_query(input.query, input.context)
    /\ output' = [kind |-> "Ok"]
    /\ fun' = "done"
    /\ UNCHANGED input
    /\ UNCHANGED <<poolvars, svars>>

(* --------------------------- pool: addresses ---------------------------- *)
\* inner.hosts, as the positions of the hosts; Pool::new builds one host,
\* get_addr takes any number of them
Hosts == UNION {{[j \in 1..n |-> j]} : n \in 1..MaxHosts}
AddrInputs == [test : {"addr"}, hosts : Hosts]

\* no get_addr is between its fetch_add and its indexing
NoIndex == [t \in Tasks |-> [called |-> FALSE, index |-> 0]]

\* &hosts[i]: indexing beyond the end panics
host_at(hosts, i) ==
    IF i < Len(hosts) THEN [kind |-> "Ok", host |-> hosts[i + 1]]
    ELSE [kind |-> "panic", host |-> 0]

\* get_addr indexing with the counter itself
get_addr_unreduced(hosts, index) == host_at(hosts, index)

\* Pool::get_addr after its fetch_add returned index
get_addr(hosts, index) == host_at(hosts, index % Len(hosts))

\* Pool::new: the counter starts at 0
PoolNew ==
    /\ fun = "new"
    /\ wire' = <<0>>
    /\ output' = [kind |-> "Ok", value |-> {}, pending |-> NoIndex]
    /\ fun' = "get_addr"
    /\ UNCHANGED input
    /\ UNCHANGED <<poolvars, svars>>

\* connections_num.fetch_add(1, SeqCst) of the get_addr of task t: one
\* atomic step
FetchAdd(t) ==
    /\ fun = "get_addr"
    /\ ~output.pending[t].called
    /\ wire[1] < MaxCalls
    /\ wire' = <<wire[1] + 1>>
    /\ output' = [output EXCEPT
                     !.pending[t] = [called |-> TRUE, index |-> wire[1]]]
    /\ UNCHANGED <<input, fun>>
    /\ UNCHANGED <<poolvars, svars>>

\* the rest of the get_addr of task t: the host for the index it got
GetAddr(t) ==
    /\ fun = "get_addr"
    /\ output.pending[t].called
    /\ LET r == get_addr(input.hosts, output.pending[t].index) IN
       output' = [output EXCEPT
                     !.pending[t] = [called |-> FALSE, index |-> 0],
                     !.value = @ \cup {[k |-> output.pending[t].index,
                                        kind |-> r.kind, host |-> r.host]}]
    /\ UNCHANGED <<input, wire, fun>>
    /\ UNCHANGED <<poolvars, svars>>

TaskStep(t) ==
    \/ GetHandlePoll(t)
    \/ CancelGet(t)
    \/ Stash(t)
    \/ DropHandle(t)
    \/ CheckConnection(t)
    \/ Ping(t)
    \/ ReconnectPoll(t)
    \/ Sleep(t)
    \/ CancelCheck(t)
    \/ QueryStart(t)
    \/ StreamEnd(t)

Next ==
    \/ \E t \in Tasks : TaskStep(t)
    \/ ConnComplete
    \/ DropHeld

Spec == Init /\ [][Next]_vars

\* one session, packet by packet; the pool is left alone
SessionSpec == Init /\ [][SessionNext]_vars

\* the inputs of the calls
Inputs == UvarintInputs \cup OverlongInputs \cup MarshalInputs \cup ShortInputs
              \cup ConcatInputs \cup EqInputs
              \cup FromSqlInputs \cup BlockInputs
              \cup CodecInputs
              \cup GetInputs
              \cup LoadInputs
              \cup ChunkInputs
              \cup QueryInputs
              \cup AddrInputs

\* the function a test starts with, and the bytes its reader starts with
first_fun(in) ==
    CASE in.test = "uvarint" -> "put_uvarint"
      [] in.test = "overlong" -> "read_uvarint"
      [] in.test = "marshal" -> "marshal"
      [] in.test = "short" -> in.what
      [] in.test = "concat" -> "concat"
      [] in.test = "eq" -> "value_eq"
      [] in.test = "from_sql" -> "from_sql"
      [] in.test = "block" -> "block"
      [] in.test = "codec" -> "write"
      [] in.test = "get" -> "get_column"
      [] in.test = "load" -> "load_data"
      [] in.test = "chunks" -> "chunks"
      [] in.test = "query" -> "encode_query"
      [] in.test = "addr" -> "new"

first_wire(in) ==
    CASE in.test = "uvarint" -> <<>>
      [] in.test = "overlong" -> in.bytes
      [] in.test = "marshal" -> <<>>
      [] in.test = "short" -> in.bytes
      [] in.test = "concat" -> <<>>
      [] in.test = "eq" -> <<>>
      [] in.test = "from_sql" -> <<in.v>>
      [] in.test = "block" -> <<>>
      [] in.test = "codec" -> <<>>
      [] in.test = "get" -> <<>>
      [] in.test = "load" -> in.bytes
      [] in.test = "chunks" -> <<>>
      [] in.test = "query" -> <<>>
      [] in.test = "addr" -> <<>>

PureInit ==
    /\ PoolInit
    /\ SessionInit
    /\ input \in Inputs
    /\ fun = first_fun(input)
    /\ wire = first_wire(input)
    /\ output = NoOutput

PureNext ==
    \/ PutUvarint
    \/ ReadUvarint
    \/ Marshal
    \/ Unmarshal
    \/ ReadBytes
    \/ ReadScalar
    \/ ReadString
    \/ Concat
    \/ At
    \/ ValueEq
    \/ ValueRefEq
    \/ ColumnEq
    \/ FromSql
    \/ BlockColumn
    \/ BlockPush
    \/ BlockWrite
    \/ BlockLoad
    \/ BlockEq
    \/ GetColumn
    \/ LoadData
    \/ Chunks
    \/ ChunkNext
    \/ EncodeQuery
    \/ PoolNew
    \/ \E t \in Tasks : FetchAdd(t)
    \/ \E t \in Tasks : GetAddr(t)

\* one call of the codec and value functions on each input
PureSpec == PureInit /\ [][PureNext]_vars

(* ------------------------------ fairness ------------------------------ *)
\* A task whose waker was woken is polled again, a running retry goes on,
\* and the connection future completes (Client::open runs under
\* with_timeout).  Nothing makes a task start a get_handle or a query,
\* drop a handle or cancel a future.
Progress(t) ==
    \/ pc[t] = "waiting" /\ GetHandlePoll(t)
    \/ Ping(t)
    \/ ReconnectPoll(t)
    \/ Sleep(t)
    \/ QueryStart(t)

LiveSpec ==
    /\ Spec
    /\ \A t \in Tasks : WF_vars(Progress(t))
    /\ WF_vars(ConnComplete)

TypeOK ==
    /\ Len(idle) <= MAX
    /\ new \in {"empty", "pending", "ok", "err"}
    /\ newWaker \in Tasks \cup {NoTask}
    /\ tasks \subseteq Tasks
    /\ ongoing \in 0..MAX
    /\ held \in 0..MAX
    /\ \A t \in Tasks : woken[t] \in {"no", "conn", "drop"}
    /\ \A t \in Tasks : ended[t] \in {"none", "idle", "eof", "exception",
                                       "dropped", "unexpected", "lost",
                                       "unreachable", "unwrap"}

(* ------------------------------- claims -------------------------------- *)

\* C1: in every reachable state |idle| + |new| + ongoing <= max
C1_CountAtMostMax == conn_count(PoolNow) <= MAX

\* C1: the pool is full with an idle handle, a connection future in flight,
\* handles checked out and a task waiting in reconnect
C1_Witness ==
    /\ conn_count(PoolNow) = MAX
    /\ idle # <<>>
    /\ new # "empty"
    /\ ongoing > 0
    /\ \E t \in Tasks : pc[t] = "reconnect_wait"

\* what Pool::return_conn must have done in a step of task t (NoTask: of the
\* environment) that dropped the handle h
Released(h, t) ==
    /\ Len(idle') = Len(idle) + 1 <=> (is_attached(h) /\ Len(idle) < MIN)
    /\ Len(idle') # Len(idle) + 1 => idle' = idle
    /\ ongoing' = ongoing - 1
    /\ tasks' = {}
    /\ \A w \in tasks \ {t} : pc'[w] \in WaitingPcs => woken'[w] # "no"

\* C2 (as amended): dropping a pool-bound handle that still holds its
\* transport pushes it back to idle iff its binding is Attached and
\* |idle| < min, otherwise the connection is discarded; in both cases ongoing
\* is decremented by exactly 1 and every queued waker is drained and woken
C2_Release ==
    [][/\ DropHeld => Released(PlainHandle, NoTask)
       /\ \A t \in Tasks :
            DropHandle(t) /\ is_some(cur[t]) /\ cur[t].inner
                => Released(cur[t], t)]_vars

\* C2 (as claimed): the same for every pool-bound handle that is dropped
C2_Original ==
    [][/\ DropHeld => Released(PlainHandle, NoTask)
       /\ \A t \in Tasks :
            DropHandle(t) /\ is_some(cur[t]) => Released(cur[t], t)]_vars

\* C2: a release filled idle up to min, emptied the waker queue and woke a
\* waiting task, while another handle that holds its transport is detached
C2_Witness ==
    /\ Len(idle) = MIN
    /\ tasks = {}
    /\ \E t \in Tasks : pc[t] \in WaitingPcs /\ woken[t] = "drop"
    /\ \E t \in Tasks : pc[t] = "have" /\ cur[t].inner /\ ~is_attached(cur[t])

\* C3: immediately after any release (a step in which Pool::return_conn
\* ran), |idle| <= min
C3_IdleAtMostMin ==
    [][(DropHeld \/ \E t \in Tasks : DropHandle(t) /\ is_some(cur[t])
                                                    /\ cur[t].inner)
          => Len(idle') <= MIN]_vars

\* C3: idle holds min handles, all of them put there by Pool::return_conn
C3_Witness ==
    /\ Len(idle) = MIN
    /\ \A i \in 1..Len(idle) : idle[i].pool = "None"
    /\ ongoing > 0

\* a step in which Pool::return_conn ran
ReleaseStep ==
    \/ DropHeld
    \/ \E u \in Tasks : DropHandle(u) /\ is_some(cur[u]) /\ cur[u].inner

\* a step in which a checked-out handle was dropped
DropStep == DropHeld \/ \E u \in Tasks : DropHandle(u)

\* C4 (as amended): when the connection count equals max, no handle is idle
\* and no connection future has completed, a get_handle poll returns Pending
\* after registering the caller's waker; when a checked-out handle that still
\* holds its transport is then dropped, every waiter is woken, and the next
\* poll of a waiter so woken resolves with a handle if an idle handle is
\* there and the connection future has not failed
C4_Saturation ==
    [][/\ \A t \in Tasks :
            /\ GetHandlePoll(t) /\ conn_count(PoolNow) = MAX /\ idle = <<>>
                                /\ new \in {"empty", "pending"}
                  => pc'[t] = "waiting" /\ t \in tasks'
            /\ GetHandlePoll(t) /\ pc[t] = "waiting" /\ woken[t] = "drop"
                                /\ idle # <<>> /\ new # "err"
                  => pc'[t] = "have" /\ is_attached(cur'[t])
       /\ ReleaseStep
            => \A w \in Tasks : pc[w] = "waiting" => woken'[w] = "drop"]_vars

\* C4 (as claimed): when the connection count equals max a get_handle poll
\* returns Pending after registering the waker; when any checked-out handle
\* is then dropped the waiter is woken and its next poll resolves with a
\* handle
C4_Original ==
    [][/\ \A t \in Tasks :
            /\ GetHandlePoll(t) /\ conn_count(PoolNow) = MAX
                  => pc'[t] = "waiting" /\ t \in tasks'
            /\ GetHandlePoll(t) /\ pc[t] = "waiting" /\ woken[t] = "drop"
                                /\ conn_count(PoolNow) >= MAX - 1
                  => pc'[t] = "have" /\ is_attached(cur'[t])
       /\ DropStep /\ conn_count(PoolNow) = MAX
            => \A w \in Tasks : pc[w] = "waiting" => woken'[w] = "drop"]_vars

\* C4: the pool is full, a drop has put a handle into idle and woken a task
\* that was pending
C4_Witness ==
    /\ conn_count(PoolNow) = MAX
    /\ idle # <<>>
    /\ new = "empty"
    /\ \E t \in Tasks : pc[t] = "waiting" /\ woken[t] = "drop"

\* the pool could serve a poll of get_handle now: a handle is idle, or the
\* connection count is below max and no connection future is in flight
Servable == idle # <<>> \/ (conn_count(PoolNow) < MAX /\ new = "empty")

\* C5: no wake-up needed for progress is lost: a task that is Pending in
\* get_handle with no wake-up due, while the pool could serve it, is
\* eventually woken or leaves get_handle
C5_NoLostWakeup ==
    \A t \in Tasks :
        (pc[t] = "waiting" /\ woken[t] = "no" /\ Servable)
            ~> (pc[t] # "waiting" \/ woken[t] # "no")

\* the task may poll get_handle now
CanPoll(t) ==
    Polled(t, "none", "waiting") \/ Polled(t, "reconnect", "reconnect_wait")

\* what a poll that finds idle non-empty must return
TakesIdle(r) ==
    /\ r.res = "ready"
    /\ is_attached(r.client)
    /\ r.p.ongoing = ongoing + 1
    /\ ~r.opened

\* a poll opens a connection only if idle is empty, the count is below max
\* and the new slot is empty
OpensLazily(r) ==
    r.opened => idle = <<>> /\ conn_count(PoolNow) < MAX /\ new = "empty"

\* C6 (as amended): a get_handle poll enqueues a new connection future only
\* when idle is empty, the connection count is below max and the new slot is
\* empty; whenever idle is non-empty at the poll and the connection future
\* in flight has not failed, it returns an idle handle (Attached, ongoing
\* incremented by exactly 1) without opening a connection
C6_Lazy ==
    \A t \in Tasks, first \in {"pending", "err"} :
        CanPoll(t) =>
            LET r == poll(PoolNow, t, first) IN
            /\ OpensLazily(r)
            /\ idle # <<>> /\ new # "err" => TakesIdle(r)

\* C6 (as claimed): whenever idle is non-empty at the poll it returns an
\* idle handle
C6_Original ==
    \A t \in Tasks, first \in {"pending", "err"} :
        CanPoll(t) =>
            LET r == poll(PoolNow, t, first) IN
            /\ OpensLazily(r)
            /\ idle # <<>> => TakesIdle(r)

\* C6: a task is about to poll while a handle is idle, a connection future
\* is in flight and the pool is below max
C6_Witness ==
    /\ idle # <<>>
    /\ new = "pending"
    /\ conn_count(PoolNow) < MAX
    /\ \E t \in Tasks : pc[t] = "waiting" /\ woken[t] # "no"

\* C7: when check_connection has returned Ok the handle is Attached
C7_AttachedAfterOk ==
    \A t \in Tasks : pc[t] = "checked" => is_attached(cur[t])

\* C7: check_connection returned Ok after a reconnect
C7_Witness ==
    \E t \in Tasks : pc[t] = "checked" /\ reconnects[t] >= 1 /\ attempt[t] >= 1

\* C8: within one check_connection reconnect is attempted at most 3 times
C8_AtMostThreeReconnects ==
    \A t \in Tasks : reconnects[t] <= MAX_RETRY_ATTEMTS

\* C9: check_connection always terminates
C9_Terminates ==
    \A t \in Tasks : []<>(pc[t] \notin CheckPcs)

\* C10: between any two consecutive reconnect attempts of one
\* check_connection the driver sleeps
C10_SleepBetweenReconnects ==
    \A t \in Tasks :
        pc[t] \in {"reconnect", "reconnect_wait"} /\ reconnects[t] >= 2
            => via[t] = "sleep"

\* C11: ping returns Ok only if a Pong packet was received on its packet
\* stream, and after an Ok ping the handle holds its transport again
C11_PingOkOnlyAfterPong ==
    spc = "checked" /\ result.kind = "Ok" => hback /\ conn.inner

\* C12: after hello returned Ok, context.server_info is the ServerInfo of
\* the server's Hello packet and the handle holds the transport handed back
\* with that packet; an Exception packet makes hello return
\* Err(Server(exception))
C12_HelloStoresServerInfo ==
    /\ spc = "hello" /\ packet.kind = "Hello"
          => info = packet.a /\ hback /\ ~stream.transport
    /\ spc = "idle"
          => /\ result.kind = "Ok"
             /\ packet.kind = "Hello"
             /\ conn.server_info = packet.a
             /\ conn.inner
    /\ spc = "failed" /\ conn.server_info = 0 /\ packet.kind = "Exception"
          => result = Res("Server", packet.a)

\* C12: hello returned Ok on a Hello packet whose revision is not the
\* driver's own
C12_Witness ==
    /\ spc = "idle"
    /\ result.kind = "Ok"
    /\ conn.server_info \in Revisions \ {CLICK_HOUSE_REVISION}

\* C13: if the packet stream of hello ends without a Hello packet, without
\* Exception and without I/O error, hello fails with BadResponse: it neither
\* succeeds nor panics
C13_BadResponse ==
    [][spc = "hello" /\ spc' # "hello" /\ info = 0
         /\ result'.kind \notin {"Server", "IO"}
         => result'.kind = "BadResponse"]_vars

\* the items of the block stream that are errors of the given kinds
ErrorsOf(kinds) ==
    {i \in 1..Len(items) : ~items[i].ok /\ items[i].err.kind \in kinds}

\* C14: a server Exception during a query makes the stream yield exactly one
\* Err(Server(exception)) carrying the server's fields, and then the stream
\* ends: no block follows the error and every later poll yields None
C14_ExceptionEndsStream ==
    /\ [](spc = "query" /\ packet.kind = "Exception"
            => /\ eof
               /\ items # <<>>
               /\ items[Len(items)] = ErrItem("Server", packet.a)
               /\ ErrorsOf({"Server"}) = {Len(items)})
    /\ [][spc = "query" /\ packet.kind = "Exception" /\ PollNext
            => last' = "None" /\ items' = items /\ stream' = stream]_vars

C14_Witness ==
    /\ spc = "query" /\ packet.kind = "Exception" /\ packet.a = 241
    /\ last = "None"
    /\ Len(items) >= 2

\* C15: after a stream that a server Exception terminated, the transport is
\* back in the handle, not marked inconsistent, and the handle is attached
\* to its pool again
C15_ReusableAfterException ==
    spc = "have" /\ ErrorsOf({"Server"}) # {}
        => conn.inner /\ ~conn.inconsistent /\ is_attached(conn)

\* C16: when the block stream yields a driver error (UnexpectedPacket for a
\* Hello or Pong packet, or an error item of the packet stream), the stream
\* ends: later polls yield None and consume no further packet, and the
\* transport comes back to the handle marked inconsistent
C16_DriverErrorEndsStream ==
    /\ [][spc = "query" /\ ErrorsOf({"UnexpectedPacket", "IO"}) # {}
            /\ PollNext
            => last' = "None" /\ items' = items /\ stream' = stream]_vars
    /\ [](spc = "have" /\ ErrorsOf({"UnexpectedPacket", "IO"}) # {}
            => conn.inner /\ conn.inconsistent)

\* the last packet consumed belongs to a query that has not reached its Eof:
\* a block, progress or profile packet, an Exception or an error item
MidQuery ==
    \/ packet.kind \in {"Block", "Progress", "ProfileInfo", "Exception",
                         "IoErr"}
    \/ packet.kind = "None" /\ ~eof

\* C17: dropping a block stream before its Eof packet was consumed hands the
\* transport back to the handle marked inconsistent and attaches the handle
\* to its pool again; a stream consumed through Eof leaves the transport not
\* marked inconsistent
C17_DropBeforeEof ==
    [][spc = "query" /\ spc' = "have"
         => /\ MidQuery
                  => /\ conn'.inner /\ conn'.inconsistent
                     /\ is_attached(conn')
            /\ packet.kind = "Eof"
                  => conn'.inner /\ ~conn'.inconsistent]_vars

\* the blocks yielded, as indices into the blocks the server sent
Yielded == {items[i].index : i \in {j \in 1..Len(items) : items[j].ok}}

\* C19: stream_blocks yields the Data blocks in the order the server sent
\* them, each at most once, leaving out only the first block and empty
\* blocks; Progress and ProfileInfo packets produce no item
C19_BlocksInOrder ==
    /\ [](/\ \A i \in 1..Len(items) : items[i].ok
                 => /\ items[i].index \in 2..Len(sent)
                    /\ items[i].block = sent[items[i].index]
          /\ \A i, j \in 1..Len(items) : items[i].ok /\ items[j].ok /\ i < j
                 => items[i].index < items[j].index
          /\ \A k \in 1..Len(sent) : k \notin Yielded
                 => k = 1 \/ sent[k].rows = 0 \/ sent[k].columns = 0)
    /\ [][spc = "query" /\ PollNext /\ stream'.n = stream.n + 1
            /\ packet'.kind \in {"Progress", "ProfileInfo"}
            => items' = items /\ last' = "Pending"]_vars

C19_Witness ==
    /\ spc = "query" /\ packet.kind = "Progress"
    /\ Len(sent) = 3
    /\ Yielded = {2, 3}

\* C20: stream_blocks never yields an empty block, that is a block with zero
\* rows or zero columns
C20_NoEmptyBlock ==
    \A i \in 1..Len(items) : items[i].ok
        => items[i].block.rows >= 1 /\ items[i].block.columns >= 1

\* C18 (as amended): a handle whose block stream ran to Eof and which is then
\* dropped while |idle| < min is appended to idle, and the next poll of
\* get_handle, unless the connection future in flight has failed, returns
\* the handle at the head of idle without opening a connection
C18_Recycled ==
    \A t \in Tasks :
        pc[t] = "have" /\ ended[t] = "eof" /\ Len(idle) < MIN =>
            LET d == drop_handle(PoolNow, cur[t]) IN
            /\ d.p.idle = Append(idle, Handle("None", TRUE, TRUE))
            /\ d.p.ongoing = ongoing - 1
            /\ \A u \in Tasks, first \in {"pending", "err"} :
                 LET r == poll(d.p, u, first) IN
                 new # "err" =>
                     /\ r.res = "ready"
                     /\ r.client = [Head(d.p.idle) EXCEPT !.pool = "Attached",
                                                          !.inside = FALSE]
                     /\ ~r.opened
                     /\ conn_count(r.p) = conn_count(PoolNow)

\* C18: the other task has dropped the handle of a stream that ran to Eof,
\* the pool kept it, and this task's get_handle took it from idle: it is the
\* only connection of the pool
C18_Witness ==
    \E t, u \in Tasks :
        /\ t # u
        /\ ended[t] = "idle" /\ pc[t] = "none"
        /\ pc[u] = "have" /\ cur[u] = PlainHandle
        /\ idle = <<>> /\ new = "empty" /\ ongoing = 1 /\ held = 0

\* C18 (as claimed): the next get_handle returns that same connection: the
\* handle just appended is the one at the head of idle, and the poll returns
\* it whatever the state of the connection future
C18_Original ==
    \A t \in Tasks :
        pc[t] = "have" /\ ended[t] = "eof" /\ Len(idle) < MIN =>
            LET d == drop_handle(PoolNow, cur[t]) IN
            /\ d.p.idle = Append(idle, Handle("None", TRUE, TRUE))
            /\ Len(d.p.idle) = 1
            /\ \A u \in Tasks, first \in {"pending", "err"} :
                 LET r == poll(d.p, u, first) IN
                 /\ r.res = "ready"
                 /\ ~r.opened

\* the number of row items that the first n block items stand for
RECURSIVE RowsBefore(_)
RowsBefore(n) ==
    IF n = 0 THEN 0
    ELSE RowsBefore(n - 1) + (IF items[n].ok THEN items[n].block.rows ELSE 1)

\* C21: stream yields exactly the rows of the blocks of stream_blocks, block
\* by block in order and rows 0..row_count-1 in order within a block; an Err
\* block item becomes exactly one Err row item; a response of the zero-row
\* schema block and Eof only yields no row and no error
C21_RowsOfBlocks ==
    LET rs == stream_rows(items) IN
    /\ Len(rs) = RowsBefore(Len(items))
    /\ \A i \in 1..Len(items) :
         IF items[i].ok
         THEN \A r \in 0..(items[i].block.rows - 1) :
                  rs[RowsBefore(i - 1) + r + 1] = OkRow(items[i].index, r)
         ELSE rs[RowsBefore(i - 1) + 1] = ErrRow(items[i].err)
    /\ spc = "query" /\ packet.kind = "Eof" /\ Len(sent) = 1
         /\ sent[1].rows = 0 /\ ErrorsOf({"Server", "IO", "UnexpectedPacket"}) = {}
         => rs = <<>>

\* C21: a two-row block, an error and a one-row block were yielded
C21_Witness ==
    /\ Len(items) = 3
    /\ items[1].ok /\ items[1].block.rows = 2
    /\ ~items[2].ok
    /\ items[3].ok /\ items[3].block.rows = 1
    /\ Len(stream_rows(items)) = 4

\* C22: for every u64 n, read_uvarint of the bytes written by put_uvarint(n)
\* returns n, and the number of bytes written is max(1, ceil(bits(n) / 7))
C22_UvarintRoundTrip ==
    input.test = "uvarint" =>
        /\ fun \in {"read_uvarint", "done"}
              => LET n == (bits(input.x) + 6) \div 7 IN
                 Len(wire) = IF n < 1 THEN 1 ELSE n
        /\ fun = "done"
              => output = ReadOk(input.x, <<>>)

\* C22: a value with bit 63 set was written in 10 bytes and read back
C22_Witness ==
    /\ input.test = "uvarint" /\ fun = "done"
    /\ 63 \in input.x /\ Len(wire) = 10
    /\ output.kind = "Ok" /\ output.value = input.x

\* the value of the 7-bit groups of the first n bytes, nothing cut off
Groups(bytes, n) ==
    UNION {{k + 7 * (j - 1) : k \in byte_bits(bytes[j] % 128)} : j \in 1..n}

\* C23: read_uvarint returns Err(Driver(Overflow)) for every input whose 10th
\* byte has a bit above bit 0 set, so also when an 11th byte would be needed;
\* it never returns a truncated or wrapped value, and overlong input makes it
\* fail in no other way
C23_Overflow ==
    input.test = "overlong" /\ fun = "done" =>
        LET n == Len(input.bytes) - Len(output.rest) IN
        /\ Len(input.bytes) >= 10 /\ (\A j \in 1..9 : input.bytes[j] >= 128)
              /\ input.bytes[10] > 1
              => output.kind = "Overflow"
        /\ output.kind = "Ok"
              => /\ output.value = Groups(input.bytes, n)
                 /\ \A k \in Groups(input.bytes, n) : k <= 63
        /\ Len(input.bytes) >= 10 => output.kind \in {"Ok", "Overflow"}

\* bytes is the little-endian representation of the value v of type ty:
\* bit k of v is bit k % 8 of the byte number k \div 8
LittleEndian(ty, v, bytes) ==
    \A k \in 0..(8 * size_of(ty) - 1) :
        k \in v <=> (k % 8) \in byte_bits(bytes[k \div 8 + 1])

\* C25: marshal writes exactly size_of(T) bytes, the little-endian
\* representation of the value, and unmarshal of these bytes gives the
\* value back, for every primitive type.
C25_MarshalRoundTrip ==
    input.test = "marshal" =>
        /\ fun \in {"unmarshal", "done"} =>
              /\ Len(wire) = size_of(input.ty)
              /\ LittleEndian(input.ty, input.v, wire)
        /\ fun = "done" => output = ReadOk(input.v, <<>>)

C25_Witness ==
    /\ input.test = "marshal"
    /\ input.ty = "i32"
    /\ input.v = {7, 30}
    /\ fun = "done"
    /\ wire = <<128, 0, 0, 64>>
    /\ output.kind = "Ok"

\* C24: read_bytes, read_scalar, read_string and read_uvarint on a strict
\* prefix of a valid encoding return the I/O error; they never panic and
\* never return a value made of fewer bytes than the encoding has.
C24_ShortRead ==
    input.test = "short" /\ fun = "done" =>
        /\ input.bytes # input.enc => output.kind = "IO"
        /\ output.kind # "panic"
        /\ output.kind = "Ok" => input.bytes = input.enc /\ output.rest = <<>>

C24_Witness ==
    /\ input.test = "short"
    /\ input.what = "read_string"
    /\ input.enc = put_string(<<66, 65, 66>>)
    /\ Len(input.bytes) = 3
    /\ fun = "done"
    /\ output.kind = "IO"

\* C26: for chunks of which one at least has a row and a row number i below
\* the total, find_chunk ends without indexing out of bounds and at(i) is
\* the element at offset i - prefix[k] of the one chunk k with
\* prefix[k] <= i < prefix[k + 1]; empty chunks are never chosen.
C26_FindChunk ==
    input.test = "concat" /\ fun = "done" =>
        /\ output.kind = "Ok"
        /\ LET k == output.value[1]
               prefix(j) == SumTo(input.sizes, j)
           IN /\ k \in 0..(Len(input.sizes) - 1)
              /\ prefix(k) <= input.ix /\ input.ix < prefix(k + 1)
              /\ input.sizes[k + 1] > 0
              /\ output.value[2] = input.ix - prefix(k)
              /\ \A j \in 0..(Len(input.sizes) - 1) :
                    prefix(j) <= input.ix /\ input.ix < prefix(j + 1) => j = k

C26_Witness ==
    /\ input.test = "concat"
    /\ input.sizes = <<2, 0, 0, 1, 0>>
    /\ input.ix = 2
    /\ fun = "done"
    /\ output = [kind |-> "Ok", value |-> <<3, 0>>]

\* C29: two values of the same variant with equal payloads, no NaN among
\* them, are equal as Value and as ValueRef, for every variant, and a column
\* is equal to itself; values of different variants are unequal.
C29_EqualityTotal ==
    input.test = "eq" /\ fun = "done" =>
        /\ input.a = input.b /\ ~HasNaN(input.a)
              => output.value = <<TRUE, TRUE, TRUE>>
        /\ input.a.tag # input.b.tag
              => output.value[1] = FALSE /\ output.value[2] = FALSE

\* C30: from_sql of a primitive type gives the payload when the cell has the
\* type's own variant; for any other variant, a narrower integer included,
\* it fails with InvalidType whose src is the SqlType of the cell and whose
\* dst is the type asked, and the cells and the stream are as before.
C30_FromSqlTypeCheck ==
    input.test = "from_sql" /\ fun = "done" =>
        /\ input.v.tag = variant_of(input.ty)
              => output.kind = "Ok" /\ output.value = input.v.v
        /\ input.v.tag # variant_of(input.ty)
              => /\ output.kind = "InvalidType"
                 /\ output.dst = input.ty
                 /\ input.v.tag \in ScalarTags => output.src = input.v.tag
                 /\ input.v = Some(Scalar("UInt8", 1))
                       => output.src = "Nullable(UInt8)"
                 /\ input.v = Array(Simple("Int256"), <<>>)
                       => output.src = "Array(Int256)"
        /\ wire = <<input.v>>
        /\ stream = NoStream

C30_Witness ==
    /\ input.test = "from_sql"
    /\ input.ty = "u32"
    /\ input.v = Scalar("UInt16", 1)
    /\ fun = "done"
    /\ output = InvalidType("UInt16", "u32")

\* C27: after any sequence of Block::column, add_column and Block::push,
\* failing pushes and rows that name only some of the columns included, all
\* columns of the block have the same number of rows.
C27_SameLen ==
    input.test = "block" /\ fun = "block" =>
        \A i, j \in 1..Len(wire) : wire[i].len = wire[j].len

\* C28: the bytes that Block::write produces for a block of typed columns
\* are read back as a block with the same columns, names, types, rows and
\* cells, and the block read is equal to the block written.
C28_BlockRoundTrip ==
    input.test = "codec" /\ fun = "done" =>
        /\ output.kind = "Ok"
        /\ output.rest = <<>>
        /\ output.value = input.block
        /\ output.eq

\* C31: access by name finds the first column whose name is the key,
\* compared exactly, and is OutOfRange when no column has the name, also
\* in a block without columns.
C31_ByName ==
    input.test = "get" /\ fun = "done" =>
        IF \E j \in 1..Len(input.columns) : input.columns[j].name = input.key
        THEN /\ output.kind = "Ok"
             /\ output.value \in 1..Len(input.columns)
             /\ input.columns[output.value].name = input.key
             /\ \A i \in 1..(output.value - 1) :
                    input.columns[i].name # input.key
        ELSE output.kind = "OutOfRange"

\* the key a over the columns A, a, a: the second column
C31_Witness ==
    /\ input.test = "get"
    /\ fun = "done"
    /\ input.key = "a"
    /\ Len(input.columns) = 3
    /\ input.columns[1].name = "A"
    /\ input.columns[2].name = "a"
    /\ input.columns[3].name = "a"
    /\ output.kind = "Ok"
    /\ output.value = 2

\* the block without columns: OutOfRange
C31_WitnessEmpty ==
    /\ input.test = "get"
    /\ fun = "done"
    /\ input.columns = <<>>
    /\ output.kind = "OutOfRange"

\* name is word(inner) for some inner
IsWrapped(name, word) ==
    /\ Len(name) >= Len(Ascii(word)) + 2
    /\ starts_with(name, Ascii(word) \o <<40>>)
    /\ name[Len(name)] = 41

\* what is between the parentheses of word(inner)
InnerOf(name, word) == SubSeq(name, Len(Ascii(word)) + 2, Len(name) - 1)

\* a supported spelling: a primitive name or alias, Nullable(X) with X not
\* itself Nullable, Array(X), or FixedString(N) with N a positive decimal
Supported(name) ==
    \/ \E sp \in Spellings : eq_ignore_ascii_case(name, sp.text)
    \/ /\ IsWrapped(name, "Nullable")
       /\ ~starts_with(InnerOf(name, "Nullable"), Ascii("Nullable"))
    \/ IsWrapped(name, "Array")
    \/ /\ IsWrapped(name, "FixedString")
       /\ InnerOf(name, "FixedString") # <<>>
       /\ \A k \in 1..Len(InnerOf(name, "FixedString")) :
              InnerOf(name, "FixedString")[k] \in 48..57
       /\ number_of(InnerOf(name, "FixedString")) > 0

\* C32: for every type name that is not a supported spelling, load_data
\* returns the error UnsupportedColumnType.
C32_Unsupported ==
    input.test = "load" /\ fun = "done" /\ ~Supported(input.name) =>
        output.kind = "UnsupportedColumnType"

\* C34: chunks(n) of a block with m > 0 rows yields ceil(m / n) blocks,
\* each with the columns of the block and at most n rows; block k has the
\* rows from (k - 1) * n on, so that the blocks are consecutive, disjoint
\* and cover the rows in order.  For m = 0 it yields one empty block and
\* ends.
C34_Chunks ==
    input.test = "chunks" /\ fun = "done" =>
        LET columns == input.block.columns
            m == row_count_of(columns)
            n == input.n
            its == output.value
        IN IF m = 0
           THEN its = <<BlockOf(<<>>)>>
           ELSE /\ Len(its) = (m + n - 1) \div n
                /\ \A k \in 1..Len(its) :
                      /\ Len(its[k].columns) = Len(columns)
                      /\ row_count_of(its[k].columns) <= n
                      /\ \A j \in 1..Len(columns) :
                            /\ its[k].columns[j].name = columns[j].name
                            /\ its[k].columns[j].cells =
                                  SubSeq(columns[j].cells, (k - 1) * n + 1,
                                         min(k * n, m))

\* three rows in chunks of two: a block of two rows and a block of one
C34_Witness ==
    /\ input.test = "chunks"
    /\ fun = "done"
    /\ input.n = 2
    /\ row_count_of(input.block.columns) = 3
    /\ Len(input.block.columns) = 2
    /\ Len(output.value) = 2
    /\ row_count_of(output.value[1].columns) = 2
    /\ row_count_of(output.value[2].columns) = 1

\* a field of the layout: a uvarint or a string
U(n) == [kind |-> "uvarint", v |-> from_usize(n)]
S(text) == [kind |-> "string", v |-> text]

\* the fields of the given kinds read from the bytes, and the bytes left
RECURSIVE read_fields(_, _)
read_fields(reader, kinds) ==
    IF kinds = <<>> THEN [kind |-> "Ok", fields |-> <<>>, rest |-> reader]
    ELSE let(IF Head(kinds) = "uvarint" THEN read_uvarint(reader, TRUE)
             ELSE read_string(reader, TRUE), LAMBDA r :
         IF r.kind # "Ok" THEN [kind |-> r.kind, fields |-> <<>>, rest |-> <<>>]
         ELSE let(read_fields(r.rest, Tail(kinds)), LAMBDA t :
              [kind |-> t.kind,
               fields |-> <<[kind |-> Head(kinds), v |-> r.value]>> \o t.fields,
               rest |-> t.rest]))

\* the Query command body of the wire protocol, up to the block of the
\* CLIENT_DATA framing
QueryLayout(sql, query_id, hostname, revision) ==
    <<U(1), S(<<>>),
      U(1), S(<<>>), S(query_id), S(InitialAddress), U(1), S(hostname),
      S(hostname), S(CLIENT_NAME), U(1), U(1), U(54213)>>
        \o (IF revision >= 54060 THEN <<S(<<>>)>> ELSE <<>>)
        \o <<S(READONLY_FLAG), U(1), S(<<>>),
             U(2), U(0), S(sql),
             U(2), S(<<>>)>>

\* C33: the encoded Query command is the layout of the wire protocol field
\* by field and in order: the settings are readonly = 1 and the empty name,
\* the quota key is there exactly for revisions from 54060, compression is
\* declared disabled, and one empty block under CLIENT_DATA ends it.
C33_QueryLayout ==
    input.test = "query" /\ fun = "done" =>
        LET layout == QueryLayout(input.query.sql, input.query.id,
                                  input.context.hostname,
                                  input.context.server_info.revision)
            r == read_fields(wire, [j \in 1..Len(layout) |-> layout[j].kind])
            block == raw_load(r.rest, TRUE)
        IN /\ r.kind = "Ok"
           /\ r.fields = layout
           /\ block.kind = "Ok"
           /\ block.value = BlockOf(<<>>)
           /\ block.rest = <<>>

\* a query with an id to a server of revision 54059: no quota key, the
\* settings follow the client revision 54213 (0xC5 0xA7 0x03)
C33_Witness ==
    /\ input.test = "query"
    /\ fun = "done"
    /\ input.context.server_info.revision = 54059
    /\ input.query.sql = <<83>>
    /\ input.query.id = <<105, 100>>
    /\ input.context.hostname = <<104>>
    /\ wire = <<1, 0, 1, 0, 2, 105, 100, 20>> \o InitialAddress
                \o <<1, 1, 104, 1, 104, 12>> \o CLIENT_NAME
                \o <<1, 1, 197, 167, 3, 8>> \o READONLY_FLAG
                \o <<1, 0, 2, 0, 1, 83, 2, 0>>
                \o <<1, 0, 2, 255, 255, 255, 255, 0, 0, 0>>

\* the calls of get_addr that returned, and how many of the calls from
\* call a on, n of them, chose host j
Selected(a, n, j) ==
    Cardinality({s \in output.value : s.k >= a /\ s.k < a + n /\ s.host = j})

\* C35: the call of get_addr after k earlier calls returns
\* hosts[k mod |hosts|], also when calls run concurrently, and among any N
\* consecutive calls each host is chosen floor(N / |hosts|) or
\* ceil(N / |hosts|) times.
C35_RoundRobin ==
    input.test = "addr" /\ fun = "get_addr" =>
        LET h == Len(input.hosts)
            ks == {s.k : s \in output.value}
                    \cup {output.pending[t].index :
                            t \in {u \in Tasks : output.pending[u].called}}
        IN /\ ks = 0..(wire[1] - 1)
           /\ Cardinality(output.value)
                 + Cardinality({u \in Tasks : output.pending[u].called})
                 = wire[1]
           /\ \A s \in output.value :
                 s.kind = "Ok" /\ s.host = input.hosts[(s.k % h) + 1]
           /\ \A a \in 0..wire[1], n \in 1..wire[1] :
                 (\A k \in a..(a + n - 1) : \E s \in output.value : s.k = k) =>
                     \A j \in 1..h :
                         \/ Selected(a, n, j) = n \div h
                         \/ Selected(a, n, j) = (n + h - 1) \div h

\* over three hosts, the fifth call has returned before the fourth: it got
\* the second host, and the first three calls one host each
C35_Witness ==
    /\ input.test = "addr"
    /\ fun = "get_addr"
    /\ Len(input.hosts) = 3
    /\ wire = <<5>>
    /\ \E t \in Tasks : output.pending[t] = [called |-> TRUE, index |-> 3]
    /\ [k |-> 4, kind |-> "Ok", host |-> 2] \in output.value
    /\ \A j \in 1..3 : Selected(0, 3, j) = 1

(* ------------------------- claims: accounting -------------------------- *)
\* the positions in which a task owns a handle taken from the pool
HandlePcs == {"have"} \cup QueryPcs

\* the connection of the handle of task t is alive: the handle holds its
\* transport, or the packet stream of its running query does
live(t) == pc[t] \in HandlePcs /\ (cur[t].inner \/ pc[t] = "stream")

\* the handles checked out whose connection is alive
LiveHandles == held + Cardinality({t \in Tasks : live(t)})

\* the handles checked out and not dropped yet, with or without transport
OwnedHandles == held + Cardinality({t \in Tasks : pc[t] \in HandlePcs})

C36_WitnessReconnect ==
    \E t \in Tasks :
        /\ pc[t] = "ping"
        /\ reconnects[t] > 0
        /\ cur[t] = PlainHandle
        /\ ongoing = held + 1

(* -------------------------- claims: panics ----------------------------- *)
\* C37: on a handle obtained from the pool, PoolBinding::detach is invoked
\* only while the binding is Attached and PoolBinding::attach only while it
\* is Detached: no step of a task ends in their unreachable!()
C37_NoUnreachable == \A t \in Tasks : ended[t] # "unreachable"

\* C38: whenever ping or the query closure takes the transport of the
\* handle with inner.take().unwrap(), the transport is there: no step of a
\* task ends in the panic of an unwrap on None
C38_TransportPresent == \A t \in Tasks : ended[t] # "unwrap"

(* --------------------- claims: failed connection ----------------------- *)
\* the poll of get_handle by task t that finds the connection future
\* completed with an error returns that error (to get_handle's caller, or
\* to retry through reconnect), leaves the new slot empty and idle and
\* ongoing as they were
C39_ErrorDelivered ==
    [][\A t \in Tasks :
         (new = "err" /\ (GetHandlePoll(t) \/ ReconnectPoll(t))) =>
             /\ new' = "empty"
             /\ idle' = idle
             /\ ongoing' = ongoing
             /\ tasks' = tasks
             /\ pc'[t] \in {"none", "sleep", "have"}]_vars

\* C39: when the connection future in flight has completed with an error,
\* the other tasks pending in get_handle are not left blocked on the failed
\* attempt: each of them is eventually woken or leaves get_handle
C39_WaitersNotBlocked ==
    \A t \in Tasks :
        (new = "err" /\ pc[t] = "waiting" /\ woken[t] = "no" /\ newWaker = NoTask)
            ~> (pc[t] # "waiting" \/ woken[t] # "no")

(* ------------------ claims: check_connection fails --------------------- *)
\* check_connection has returned Err: the ping of a handle that had
\* completed hello failed and retry gave up
CheckErr ==
    /\ conn.server_info # 0
    /\ result.kind \in {"Server", "IO", "Timeout"}

\* C40: if check_connection fails before a query, the stream of
\* stream_blocks yields exactly one item, the Err of check_connection, and
\* then ends (every later poll returns None), and so does the row stream of
\* stream(); the closure of the query is not run: no command is in flight
\* and the handle does not reach the state after the closure
C40_FailedCheck ==
    /\ [](CheckErr => spc \in {"failed", "once", "unchecked"}
                      /\ stream = NoStream)
    /\ [](spc \in {"once", "unchecked"} =>
            /\ CheckErr
            /\ IF last = "none"
               THEN items = <<>>
               ELSE /\ items = <<ErrItem(result.kind, result.code)>>
                    /\ stream_rows(items) = <<ErrRow(result)>>
                    /\ last \in {"Item", "None"})
    /\ [][spc = "once" /\ last # "none" /\ OncePoll
            => last' = "None" /\ items' = items]_vars

\* C40: the ping timed out, retry gave up with that error, and the stream
\* has yielded the error and then None
C40_Witness ==
    /\ spc = "once"
    /\ result = Res("Timeout", 0)
    /\ items = <<ErrItem("Timeout", 0)>>
    /\ last = "None"
    /\ ~conn.inner

====
